---- MODULE Spec2Model ----
(***************************************************************************)
(* CashMate: the natural-language transaction parser                       *)
(* (src/src/services/nlp_processor.py, GeminiTransactionParser).           *)
(*                                                                         *)
(* Texts are TLA+ strings, i.e. sequences of characters: SubSeq(s, i, i)   *)
(* is the i-th character of s, Len its length and \o concatenation. The    *)
(* characters are those up to U+00FF.                                      *)
(* A Python value is a record [t, s, n, d, u]:                             *)
(*   t = "str"     a str, s its text;                                      *)
(*   t = "none"    None;                                                   *)
(*   t = "int"     the int n;                                              *)
(*   t = "num"     a float: the IEEE double u steps above the double       *)
(*                 nearest to the decimal fraction n / d (d a power of     *)
(*                 ten, the fraction in lowest decimal terms); u is 0 for  *)
(*                 every float read from a literal and can differ from 0   *)
(*                 after a multiplication;                                 *)
(*   t = "negzero" the float -0.0;                                         *)
(*   t = "inf"     the float inf (n = 1) or -inf (n = -1);                 *)
(*   t = "nan"     the float nan.                                          *)
(* n and d are TLC integers: a number with more digits is not a value of   *)
(* the model.                                                              *)
(***************************************************************************)
EXTENDS Integers, Sequences, FiniteSets, TLC

(***************************************************************************)
(* Python str primitives                                                   *)
(***************************************************************************)
Char(s, i) == SubSeq(s, i, i)

\* U+001C to U+001F: whitespace for str.isspace(), not for float()
Separators == {"", "", "", ""}

\* the characters str.strip(), str.split() and the regex \s take for
\* whitespace: the last three are U+000B, U+0085 and U+00A0
Whitespace == {" ", "\t", "\n", "\r", "\f", "", "", " "} \cup Separators

Digits == "0123456789"

DigitChars == {Char(Digits, k) : k \in 1..Len(Digits)}

UpperCase == "ABCDEFGHIJKLMNOPQRSTUVWXYZÀÁÂÃÄÅÆÇÈÉÊËÌÍÎÏÐÑÒÓÔÕÖØÙÚÛÜÝÞ"

LowerCase == "abcdefghijklmnopqrstuvwxyzàáâãäåæçèéêëìíîïðñòóôõöøùúûüýþ"

UpperChars == {Char(UpperCase, k) : k \in 1..Len(UpperCase)}

IsSpace(c) == c \in Whitespace

IsDigit(c) == c \in DigitChars

DigitVal(c) == (CHOOSE k \in 1..Len(Digits) : Char(Digits, k) = c) - 1

\* str.lower() of one character
LowerChar(c) ==
    IF c \in UpperChars
    THEN Char(LowerCase, CHOOSE k \in 1..Len(UpperCase) : Char(UpperCase, k) = c)
    ELSE c

RECURSIVE Lower(_)
\* str.lower()
Lower(s) == IF s = "" THEN "" ELSE LowerChar(Head(s)) \o Lower(Tail(s))

\* s with the characters of space removed from both ends
StripChars(s, space) ==
    LET keep == {i \in 1..Len(s) : Char(s, i) \notin space}
    IN  IF keep = {} THEN ""
        ELSE SubSeq(s, CHOOSE i \in keep : \A j \in keep : i <= j,
                       CHOOSE i \in keep : \A j \in keep : j <= i)

\* str.strip(): leading and trailing whitespace removed
Strip(s) == StripChars(s, Whitespace)

\* s.startswith(p)
StartsWith(s, p) == Len(s) >= Len(p) /\ SubSeq(s, 1, Len(p)) = p

\* s.endswith(p)
EndsWith(s, p) == Len(s) >= Len(p) /\ SubSeq(s, Len(s) - Len(p) + 1, Len(s)) = p

\* s[k:]
DropFirst(s, k) == SubSeq(s, k + 1, Len(s))

\* s[:-k]
DropLast(s, k) == SubSeq(s, 1, Len(s) - k)

\* s[i-1:].startswith(p), i counted from 1
HasAt(s, i, p) ==
    p = "" \/ (i + Len(p) - 1 <= Len(s) /\ SubSeq(s, i, i + Len(p) - 1) = p)

\* kw in s (substring containment)
Contains(s, kw) ==
    \E i \in 1..(Len(s) - Len(kw) + 1) : SubSeq(s, i, i + Len(kw) - 1) = kw

\* any(keyword in s for keyword in keywords)
ContainsAny(s, keywords) == \E kw \in keywords : Contains(s, kw)

\* the index of the first whitespace character of s at or after i, Len(s)+1 if none
NextSpace(s, i) ==
    LET at == {j \in i..Len(s) : IsSpace(Char(s, j))}
    IN  IF at = {} THEN Len(s) + 1 ELSE CHOOSE j \in at : \A k \in at : j <= k

\* the index of the first non-whitespace character of s at or after i, Len(s)+1 if none
SkipSpace(s, i) ==
    LET at == {j \in i..Len(s) : ~IsSpace(Char(s, j))}
    IN  IF at = {} THEN Len(s) + 1 ELSE CHOOSE j \in at : \A k \in at : j <= k

RECURSIVE SplitFrom(_, _)
SplitFrom(s, i) ==
    LET b == SkipSpace(s, i)
    IN  IF b > Len(s) THEN << >>
        ELSE LET e == NextSpace(s, b)
             IN  <<SubSeq(s, b, e - 1)>> \o SplitFrom(s, e)

\* str.split(): the whitespace-separated words of s
Split(s) == SplitFrom(s, 1)

\* the least element of a non-empty set of integers
Least(S) == CHOOSE i \in S : \A j \in S : i <= j

RECURSIVE NatToStr(_)
\* str(n) for an int n >= 0
NatToStr(n) ==
    IF n < 10 THEN Char(Digits, n + 1)
    ELSE NatToStr(n \div 10) \o Char(Digits, (n % 10) + 1)

RECURSIVE ZeroPad(_, _)
\* s with zeros in front up to k characters
ZeroPad(s, k) == IF Len(s) >= k THEN s ELSE ZeroPad("0" \o s, k)

RECURSIVE Zeros(_)
\* k zeros
Zeros(k) == IF k <= 0 THEN "" ELSE "0" \o Zeros(k - 1)

RECURSIVE Log10(_)
Log10(d) == IF d <= 1 THEN 0 ELSE 1 + Log10(d \div 10)

RECURSIVE Pow10(_)
Pow10(k) == IF k = 0 THEN 1 ELSE 10 * Pow10(k - 1)

RECURSIVE Pow2(_)
Pow2(k) == IF k = 0 THEN 1 ELSE 2 * Pow2(k - 1)

Abs(n) == IF n < 0 THEN 0 - n ELSE n

(***************************************************************************)
(* Python values                                                           *)
(***************************************************************************)
RECURSIVE FloatUlp(_, _, _)
\* the float u steps above the double nearest n / d, d a power of ten
FloatUlp(n, d, u) ==
    IF d > 1 /\ n % 10 = 0 THEN FloatUlp(n \div 10, d \div 10, u)
    ELSE [t |-> "num", s |-> "", n |-> n, d |-> d, u |-> u]

\* the float nearest n / d, d a power of ten
Float(n, d) == FloatUlp(n, d, 0)

\* a Python int
PyInt(n) == [t |-> "int", s |-> "", n |-> n, d |-> 1, u |-> 0]

NaN == [t |-> "nan", s |-> "", n |-> 0, d |-> 1, u |-> 0]

\* float inf (sign = 1) and -inf (sign = -1)
Inf(sign) == [t |-> "inf", s |-> "", n |-> sign, d |-> 1, u |-> 0]

\* the float -0.0
NegZero == [t |-> "negzero", s |-> "", n |-> 0, d |-> 1, u |-> 0]

\* a Python str value
Str(s) == [t |-> "str", s |-> s, n |-> 0, d |-> 1, u |-> 0]

\* Python None (JSON null)
None == [t |-> "none", s |-> "", n |-> 0, d |-> 1, u |-> 0]

\* x is an int or a float other than nan
IsNumber(x) == x.t \in {"int", "num", "negzero", "inf"}

\* x <= 0 (False when x is NaN)
LeqZero(x) == IsNumber(x) /\ x.n <= 0

\* x > 0 (False when x is NaN)
IsPositive(x) == IsNumber(x) /\ x.n > 0

\* -x for a float x
Negated(x) ==
    CASE x.t = "num" /\ x.n = 0 -> NegZero
      [] x.t = "num" /\ x.n # 0 -> FloatUlp(0 - x.n, x.d, 0 - x.u)
      [] x.t = "negzero"        -> Float(0, 1)
      [] x.t = "inf"            -> Inf(0 - x.n)
      [] OTHER                  -> x

(***************************************************************************)
(* IEEE 754 double arithmetic. A natural number beyond TLC's integers is   *)
(* the sequence of its limbs in base 2^15, least significant first,        *)
(* without leading zero limbs (0 is << >>). A positive double is           *)
(* [m, e]: m * 2^e with 2^52 <= m < 2^53.                                  *)
(***************************************************************************)
\* the element of a one-element set. The({e : v \in {x}}) is e with v standing
\* for the value of x: x is evaluated once, however often e uses v
The(S) == CHOOSE r \in S : TRUE

Base == Pow2(15)

RECURSIVE BigNorm(_)
\* a without its leading zero limbs
BigNorm(a) ==
    IF a = << >> THEN a
    ELSE IF a[Len(a)] = 0 THEN BigNorm(SubSeq(a, 1, Len(a) - 1))
    ELSE a

RECURSIVE Big(_)
\* the limbs of the TLC integer n >= 0
Big(n) == IF n = 0 THEN << >> ELSE <<n % Base>> \o Big(n \div Base)

RECURSIVE TimesFrom(_, _, _, _)
\* the limbs of a from the i-th on, times k, plus c
TimesFrom(a, k, c, i) ==
    IF i > Len(a) THEN Big(c)
    ELSE The({<<v % Base>> \o TimesFrom(a, k, v \div Base, i + 1) : v \in {a[i] * k + c}})

\* a * k + c, for 0 < k < Base and c < Base
BigTimesCarry(a, k, c) == The({TimesFrom(v, k, c, 1) : v \in {a}})

\* the i-th limb of a, 0 beyond its length
Limb(a, i) == IF i <= Len(a) THEN a[i] ELSE 0

RECURSIVE AddFrom(_, _, _, _)
\* the limbs of a and of b from the i-th on, added, plus c
AddFrom(a, b, c, i) ==
    IF i > Len(a) /\ i > Len(b) THEN Big(c)
    ELSE The({<<v % Base>> \o AddFrom(a, b, v \div Base, i + 1) :
              v \in {Limb(a, i) + Limb(b, i) + c}})

\* a + b
BigAdd(a, b) == The({BigNorm(AddFrom(v, w, 0, 1)) : v \in {a}, w \in {b}})

\* a * k for a TLC integer k, 0 < k < Base * Base
BigTimes(a, k) ==
    IF k < Base THEN BigTimesCarry(a, k, 0)
    ELSE The({BigAdd(TimesFrom(v, k % Base, 0, 1),
                     <<0>> \o TimesFrom(v, k \div Base, 0, 1)) : v \in {a}})

RECURSIVE RemAbove(_, _, _)
\* the number the limbs of a above the i-th make, modulo k (0 < k <= Base)
RemAbove(a, k, i) ==
    IF i >= Len(a) THEN 0 ELSE (RemAbove(a, k, i + 1) * Base + a[i + 1]) % k

RECURSIVE DivFrom(_, _, _, _)
\* the limbs of a \div k from the i-th down, r being what is left of the
\* limbs above
DivFrom(a, k, r, i) ==
    IF i = 0 THEN << >>
    ELSE The({DivFrom(a, k, v % k, i - 1) \o <<v \div k>> : v \in {r * Base + a[i]}})

\* a \div k, for 0 < k <= Base
BigDiv(a, k) == The({BigNorm(DivFrom(v, k, 0, Len(v))) : v \in {a}})

\* a % k, for 0 < k <= Base
BigMod(a, k) == The({RemAbove(v, k, 0) : v \in {a}})

RECURSIVE IncFrom(_, _)
IncFrom(a, i) ==
    IF i > Len(a) THEN <<1>>
    ELSE IF a[i] + 1 < Base THEN <<a[i] + 1>> \o SubSeq(a, i + 1, Len(a))
    ELSE <<0>> \o IncFrom(a, i + 1)

\* a + 1
BigInc(a) == The({IncFrom(v, 1) : v \in {a}})

RECURSIVE DecFrom(_, _)
DecFrom(a, i) ==
    IF a[i] > 0 THEN <<a[i] - 1>> \o SubSeq(a, i + 1, Len(a))
    ELSE <<Base - 1>> \o DecFrom(a, i + 1)

\* a - 1, for a > 0
BigDec(a) == The({BigNorm(DecFrom(v, 1)) : v \in {a}})

RECURSIVE LessFrom(_, _, _)
\* a < b, decided by the limbs from the i-th down, a and b of one length
LessFrom(a, b, i) ==
    IF i = 0 THEN FALSE
    ELSE IF a[i] # b[i] THEN a[i] < b[i]
    ELSE LessFrom(a, b, i - 1)

\* a < b
BigLess(a, b) ==
    The({IF Len(v) # Len(w) THEN Len(v) < Len(w) ELSE LessFrom(v, w, Len(v)) :
         v \in {a}, w \in {b}})

RECURSIVE Bits(_)
\* the number of binary digits of the TLC integer n
Bits(n) == IF n = 0 THEN 0 ELSE 1 + Bits(n \div 2)

\* the number of binary digits of a
BigBits(a) ==
    The({IF v = << >> THEN 0 ELSE 15 * (Len(v) - 1) + Bits(v[Len(v)]) : v \in {a}})

\* a \div 2^r
BigShr(a, r) ==
    IF r <= 0 THEN a
    ELSE The({BigDiv(SubSeq(v, (r \div 15) + 1, Len(v)), Pow2(r % 15)) : v \in {a}})

\* a % 2^r # 0
BigLowBits(a, r) ==
    /\ r > 0
    /\ The({\/ \E i \in 1..(r \div 15) : i <= Len(v) /\ v[i] # 0
            \/ (r \div 15) < Len(v) /\ v[(r \div 15) + 1] % Pow2(r % 15) # 0 : v \in {a}})

\* a * 2^r
BigShl(a, r) ==
    The({IF v = << >> THEN v
        ELSE [i \in 1..(r \div 15) |-> 0] \o TimesFrom(v, Pow2(r % 15), 0, 1) : v \in {a}})

RECURSIVE BigTimesPow10(_, _)
\* a * 10^k
BigTimesPow10(a, k) ==
    IF k <= 0 THEN a
    ELSE The({BigTimesPow10(TimesFrom(v, 10, 0, 1), k - 1) : v \in {a}})

RECURSIVE BigDivPow10(_, _)
\* x.q \div 10^k, with x.st or the remainder being non-zero
BigDivPow10(x, k) ==
    IF k <= 0 THEN x
    ELSE The({BigDivPow10([q |-> BigDiv(v.q, 10), st |-> v.st \/ BigMod(v.q, 10) # 0],
                        k - 1) : v \in {x}})

RECURSIVE DigitsFrom(_)
DigitsFrom(a) ==
    IF a = << >> THEN ""
    ELSE The({DigitsFrom(BigDiv(v, 10)) \o Char(Digits, BigMod(v, 10) + 1) : v \in {a}})

\* the decimal digits of a > 0
BigToStr(a) == DigitsFrom(a)

\* a 53-bit m that rounding carried to 2^53, brought back into range
Carry53(m, e) ==
    The({IF BigBits(v) = 54 THEN [m |-> BigDiv(v, 2), e |-> e + 1]
        ELSE [m |-> v, e |-> e] : v \in {m}})

\* the 54-bit t, its last bit being the first bit dropped, rounded to 53
\* bits, to nearest and to even on a tie; st tells that lower bits were
\* dropped before
RoundLastBit(t, st, e) ==
    The({Carry53(IF v[1] % 2 = 1 /\ (st \/ (v[1] \div 2) % 2 = 1)
                THEN BigInc(BigDiv(v, 2))
                ELSE BigDiv(v, 2),
                e) : v \in {t}})

\* the double nearest a * 2^e (a of 55 bits or more), st telling that the
\* number is a little more than that
Round53(a, st, e) ==
    The({RoundLastBit(BigShr(v, BigBits(v) - 54),
                     st \/ BigLowBits(v, BigBits(v) - 54),
                     e + BigBits(v) - 53) : v \in {a}})

\* the double nearest q.q * 2^e
Round53Of(q, e) == The({Round53(v.q, v.st, e) : v \in {q}})

\* the double nearest n / d, n > 0, d a power of ten
DoubleOf(n, d) ==
    Round53Of(BigDivPow10([q |-> BigShl(Big(n), 96), st |-> FALSE], Log10(d)), -96)

\* the double x * k for a TLC integer k > 0, rounded as the multiplication of
\* two doubles is
DoubleTimes(x, k) ==
    The({Round53(BigShl(BigTimes(v.m, k), 2), FALSE, v.e - 2) : v \in {x}})

\* the doubles next to x
StepUp(x) == The({Carry53(BigInc(v.m), v.e) : v \in {x}})

StepDown(x) ==
    The({IF BigBits(BigDec(v.m)) = 52
        THEN [m |-> BigDec(BigShl(v.m, 1)), e |-> v.e - 1]
        ELSE [m |-> BigDec(v.m), e |-> v.e] : v \in {x}})

RECURSIVE StepBy(_, _)
\* the double u steps above x
StepBy(x, u) ==
    IF u = 0 THEN x
    ELSE IF u > 0 THEN StepBy(StepUp(x), u - 1)
    ELSE StepBy(StepDown(x), u + 1)

\* the farthest a product of the model is from the double nearest its decimal
MaxUlps == 4

\* the steps from the double x up to the double y
UlpsBetween(x, y) ==
    The({CHOOSE u \in (0 - MaxUlps)..MaxUlps : StepBy(v, u) = w : v \in {x}, w \in {y}})

\* the double a positive float of the model is
DoubleOfFloat(x) == StepBy(DoubleOf(x.n, x.d), x.u)

\* the float the double y is, y being near the decimal n / d
FloatNear(n, d, y) == FloatUlp(n, d, UlpsBetween(DoubleOf(n, d), y))

RECURSIVE ProductOf(_, _, _)
\* the decimal (n / d) * m: the tens of m are taken out of d first
ProductOf(n, d, m) ==
    IF d > 1 /\ m % 10 = 0 THEN ProductOf(n, d \div 10, m \div 10)
    ELSE Float(n * m, d)

\* the decimal x * m, without rounding
Product(x, m) == ProductOf(x.n, x.d, m)

\* the float x * m for a float x > 0 that is no whole number
TimesPositive(x, m) ==
    The({FloatNear(v.n, v.d, DoubleTimes(DoubleOfFloat(x), m)) : v \in {Product(x, m)}})

\* x * m for a float x and an int m > 0
Times(x, m) ==
    IF x.t # "num" \/ x.n = 0 \/ m = 1 THEN x
    ELSE IF x.d = 1 /\ x.u = 0 THEN Float(x.n * m, 1)
    ELSE IF x.n > 0 THEN TimesPositive(x, m)
    ELSE Negated(TimesPositive(Negated(x), m))

\* |a.n| * b.d: the numerator of |a| over the denominator a.d * b.d
Cross(a, b) == BigTimes(Big(Abs(a.n)), b.d)

\* a < b for two finite numbers: by the decimals, and by the steps when the
\* decimals are equal
LessFinite(a, b) ==
    IF a.n < 0 /\ b.n >= 0 THEN TRUE
    ELSE IF a.n >= 0 /\ b.n < 0 THEN FALSE
    ELSE The({\/ IF a.n < 0 THEN BigLess(w, v) ELSE BigLess(v, w)
              \/ v = w /\ a.u < b.u :
              v \in {Cross(a, b)}, w \in {Cross(b, a)}})

\* a < b (False when either is NaN)
Less(a, b) ==
    /\ IsNumber(a) /\ IsNumber(b)
    /\ IF a.t = "inf" THEN a.n < 0 /\ b # a
       ELSE IF b.t = "inf" THEN b.n > 0
       ELSE LessFinite(a, b)

(***************************************************************************)
(* float() of a str and str() of a float                                   *)
(***************************************************************************)
RECURSIVE DigitsValue(_)
\* the number a string of digits denotes
DigitsValue(s) ==
    IF s = "" THEN 0
    ELSE 10 * DigitsValue(DropLast(s, 1)) + DigitVal(Char(s, Len(s)))

AllDigits(s) == s # "" /\ \A i \in 1..Len(s) : IsDigit(Char(s, i))

\* s is digits or empty
DigitsOrEmpty(s) == \A i \in 1..Len(s) : IsDigit(Char(s, i))

\* float(lit) for a literal of the form digits or digits.digits
DecimalValue(lit) ==
    LET dots == {i \in 1..Len(lit) : Char(lit, i) = "."}
    IN  IF dots = {} THEN Float(DigitsValue(lit), 1)
        ELSE LET p == CHOOSE i \in dots : TRUE
                 frac == SubSeq(lit, p + 1, Len(lit))
             IN  Float(DigitsValue(SubSeq(lit, 1, p - 1)) * Pow10(Len(frac))
                         + DigitsValue(frac),
                       Pow10(Len(frac)))

\* the characters float() strips from both ends of a str
FloatWhitespace == Whitespace \ Separators

\* every "_" of s stands between two digits
UnderscoresGrouped(s) ==
    \A i \in 1..Len(s) :
        Char(s, i) = "_" =>
            /\ 1 < i /\ i < Len(s)
            /\ IsDigit(Char(s, i - 1)) /\ IsDigit(Char(s, i + 1))

RECURSIVE WithoutUnderscores(_)
WithoutUnderscores(s) ==
    IF s = "" THEN ""
    ELSE IF Head(s) = "_" THEN WithoutUnderscores(Tail(s))
    ELSE Char(s, 1) \o WithoutUnderscores(Tail(s))

\* the index of the first character of s that is one of chars, Len(s)+1 if none
FirstOf(s, chars) ==
    IF \E i \in 1..Len(s) : Char(s, i) \in chars
    THEN Least({i \in 1..Len(s) : Char(s, i) \in chars})
    ELSE Len(s) + 1

\* the parts of a literal without its sign: the digits before the point, the
\* digits after it, and the exponent with its sign
MantissaOf(body) == SubSeq(body, 1, FirstOf(body, {"e", "E"}) - 1)

ExponentOf(body) == SubSeq(body, FirstOf(body, {"e", "E"}) + 1, Len(body))

HasExponent(body) == FirstOf(body, {"e", "E"}) <= Len(body)

IntPart(body) == SubSeq(MantissaOf(body), 1, FirstOf(MantissaOf(body), {"."}) - 1)

FracPart(body) ==
    SubSeq(MantissaOf(body), FirstOf(MantissaOf(body), {"."}) + 1, Len(MantissaOf(body)))

ExponentDigits(body) ==
    IF ExponentOf(body) # "" /\ Char(ExponentOf(body), 1) \in {"+", "-"}
    THEN DropFirst(ExponentOf(body), 1)
    ELSE ExponentOf(body)

\* body is digits[.[digits]] or .digits, with e or E and a signed run of
\* digits after it or not
IsFloatLiteral(body) ==
    /\ DigitsOrEmpty(IntPart(body)) /\ DigitsOrEmpty(FracPart(body))
    /\ IntPart(body) \o FracPart(body) # ""
    /\ HasExponent(body) => AllDigits(ExponentDigits(body))

RECURSIVE DropLeadingZeros(_)
DropLeadingZeros(s) ==
    IF s # "" /\ Head(s) = "0" THEN DropLeadingZeros(Tail(s)) ELSE s

RECURSIVE DropTrailingZeros(_)
DropTrailingZeros(s) ==
    IF s # "" /\ Char(s, Len(s)) = "0" THEN DropTrailingZeros(DropLast(s, 1)) ELSE s

\* the exponent an exponent part denotes; one of five digits or more stands
\* for one beyond every double
ExponentValue(body) ==
    IF ~HasExponent(body) THEN 0
    ELSE IF Len(DropLeadingZeros(ExponentDigits(body))) > 4
    THEN IF Char(ExponentOf(body), 1) = "-" THEN -9999 ELSE 9999
    ELSE IF Char(ExponentOf(body), 1) = "-"
    THEN 0 - DigitsValue(DropLeadingZeros(ExponentDigits(body)))
    ELSE DigitsValue(DropLeadingZeros(ExponentDigits(body)))

\* the significant digits of a literal and the power of ten they are scaled
\* by: the literal denotes 0.digits * 10^decpt
SignificantDigits(body) ==
    DropTrailingZeros(DropLeadingZeros(IntPart(body) \o FracPart(body)))

DecimalPoint(body) ==
    Len(DropLeadingZeros(IntPart(body) \o FracPart(body)))
        - Len(FracPart(body)) + ExponentValue(body)

\* the float digits * 10^(decpt - Len(digits)), digits ending in no zero
FloatOfDigits(digits, decpt) ==
    IF digits = "" THEN Float(0, 1)
    ELSE IF decpt > 309 THEN Inf(1)
    ELSE IF decpt < -323 THEN Float(0, 1)
    ELSE IF decpt >= Len(digits)
    THEN Float(DigitsValue(digits) * Pow10(decpt - Len(digits)), 1)
    ELSE Float(DigitsValue(digits), Pow10(Len(digits) - decpt))

\* float(body) for a literal without sign
FloatLiteralValue(body) == FloatOfDigits(SignificantDigits(body), DecimalPoint(body))

\* float(lit) for a str without surrounding whitespace
FloatOfStripped(lit, negative, body) ==
    IF Lower(body) \in {"inf", "infinity"}
    THEN [ok |-> TRUE, value |-> IF negative THEN Inf(-1) ELSE Inf(1)]
    ELSE IF Lower(body) = "nan" THEN [ok |-> TRUE, value |-> NaN]
    ELSE IF UnderscoresGrouped(body) /\ IsFloatLiteral(WithoutUnderscores(body))
    THEN [ok |-> TRUE,
          value |-> IF negative
                    THEN Negated(FloatLiteralValue(WithoutUnderscores(body)))
                    ELSE FloatLiteralValue(WithoutUnderscores(body))]
    ELSE [ok |-> FALSE, value |-> NaN]

\* float(text): [ok, value]; not ok stands for the ValueError
FloatOfStr(text) ==
    FloatOfStripped(
        StripChars(text, FloatWhitespace),
        StartsWith(StripChars(text, FloatWhitespace), "-"),
        IF StripChars(text, FloatWhitespace) # ""
           /\ Char(StripChars(text, FloatWhitespace), 1) \in {"-", "+"}
        THEN DropFirst(StripChars(text, FloatWhitespace), 1)
        ELSE StripChars(text, FloatWhitespace))

\* repr of a float from its shortest digits (ending in no zero) and the place
\* of the decimal point: fixed notation when -4 < decpt <= 16, with ".0" after
\* a whole number, and exponent notation otherwise
ReprFixed(digits, decpt) ==
    IF decpt <= 0 THEN "0." \o Zeros(0 - decpt) \o digits
    ELSE IF decpt >= Len(digits) THEN digits \o Zeros(decpt - Len(digits)) \o ".0"
    ELSE SubSeq(digits, 1, decpt) \o "." \o DropFirst(digits, decpt)

ReprExponent(digits, x) ==
    Char(digits, 1)
        \o (IF Len(digits) > 1 THEN "." \o DropFirst(digits, 1) ELSE "")
        \o "e" \o (IF x < 0 THEN "-" ELSE "+") \o ZeroPad(NatToStr(Abs(x)), 2)

ReprOf(digits, decpt) ==
    IF -4 < decpt /\ decpt <= 16 THEN ReprFixed(digits, decpt)
    ELSE ReprExponent(digits, decpt - 1)

\* The shortest digits that read back as the double x = m * 2^e, e < 0. A
\* candidate c at scale k stands for c / 10^k (k >= 0) or c * 10^-k (k < 0);
\* the numbers below are in units of 2^(e-2) / 10^max(k, 0).
ScaleUp(k) == IF k > 0 THEN k ELSE 0

ScaleDown(k) == IF k < 0 THEN 0 - k ELSE 0

\* the double itself
Centre(x, k) == BigTimesPow10(BigShl(x.m, 2), ScaleUp(k))

\* the ends of the interval of the numbers that round to x
LowEnd(x, k) ==
    BigTimesPow10(IF BigBits(BigDec(x.m)) = 52
                  THEN BigDec(BigShl(x.m, 2))
                  ELSE BigDec(BigDec(BigShl(x.m, 2))),
                  ScaleUp(k))

HighEnd(x, k) == BigTimesPow10(BigInc(BigInc(BigShl(x.m, 2))), ScaleUp(k))

\* the candidate c in those units
Scaled(x, k, c) == BigShl(BigTimesPow10(c, ScaleDown(k)), 2 - x.e)

\* the candidate just below x at scale k
FloorCandidate(x, k) ==
    BigShr(BigDivPow10([q |-> BigTimesPow10(x.m, ScaleUp(k)), st |-> FALSE],
                       ScaleDown(k)).q,
           0 - x.e)

\* a <= b, and a < b unless the ends belong to the interval (m even)
Within(a, b, x) ==
    The({BigLess(v, w) \/ (v = w /\ x.m[1] % 2 = 0) : v \in {a}, w \in {b}})

LowValid(x, k, c) == Within(LowEnd(x, k), Scaled(x, k, c), x)

HighValid(x, k, c) == Within(Scaled(x, k, c), HighEnd(x, k), x)

\* x is nearer to the candidate c than to c + 1, or as near and c is even;
\* mid is twice x and sum the two candidates added
NearerLow(mid, sum, c) ==
    The({BigLess(v, w) \/ (v = w /\ BigMod(c, 2) = 0) : v \in {mid}, w \in {sum}})

\* of the candidates c and c + 1 around x, c is to be taken
PreferLow(x, k, c) ==
    \/ ~HighValid(x, k, BigInc(c))
    \/ /\ LowValid(x, k, c)
       /\ NearerLow(BigShl(Centre(x, k), 1),
                    BigAdd(Scaled(x, k, c), Scaled(x, k, BigInc(c))),
                    c)

RECURSIVE ShortestAt(_, _)
\* the shortest candidate that reads back as x, searched from scale k on:
\* [c, k]
ShortestAt(x, k) ==
    The({IF LowValid(x, k, c) \/ HighValid(x, k, BigInc(c))
        THEN [c |-> IF PreferLow(x, k, c) THEN c ELSE BigInc(c), k |-> k]
        ELSE ShortestAt(x, k + 1) : c \in {FloorCandidate(x, k)}})

\* repr of the candidate c at scale k
ReprOfCandidate(r) ==
    The({ReprOf(DropTrailingZeros(digits), Len(digits) - r.k) : digits \in {BigToStr(r.c)}})

\* repr(x) for a float x > 0 of the model
ReprPositive(x) ==
    IF x.u = 0
    THEN ReprOf(DropTrailingZeros(NatToStr(x.n)), Len(NatToStr(x.n)) - Log10(x.d))
    ELSE ReprOfCandidate(ShortestAt(DoubleOfFloat(x),
                                    Log10(x.d) - Len(NatToStr(x.n)) + 1))

(***************************************************************************)
(* Amount extraction: _parse_with_fallback, "Extract amount"               *)
(***************************************************************************)
\* the index of the last character of the digit run that starts at i
DigitRunEnd(s, i) ==
    LET at == {j \in i..Len(s) : ~IsDigit(Char(s, j))}
    IN  IF at = {} THEN Len(s) ELSE (CHOOSE j \in at : \A k \in at : j <= k) - 1

\* the index of the last character \d+(?:\.\d+)? takes when it starts at the digit at i
NumberEnd(s, i) ==
    LET e == DigitRunEnd(s, i)
    IN  IF e + 2 <= Len(s) /\ Char(s, e + 1) = "." /\ IsDigit(Char(s, e + 2))
        THEN DigitRunEnd(s, e + 2)
        ELSE e

\* (\d+(?:\.\d+)?)\s*suffix matches s from index i on. A shorter number or a
\* shorter run of whitespace leaves a digit, a "." or a whitespace character
\* before the suffix, so only the longest ones can match.
PatternMatchesAt(s, i, suffix) ==
    /\ IsDigit(Char(s, i))
    /\ LET w == SkipSpace(s, NumberEnd(s, i) + 1)
       IN  HasAt(s, w, suffix)

\* re.search(pattern, s): the leftmost match, as its group(1), or no match
ReSearch(s, suffix) ==
    LET at == {i \in 1..Len(s) : PatternMatchesAt(s, i, suffix)}
    IN  IF at = {} THEN [found |-> FALSE, group |-> ""]
        ELSE LET i == CHOOSE j \in at : \A k \in at : j <= k
             IN  [found |-> TRUE, group |-> SubSeq(s, i, NumberEnd(s, i))]

\* amount_patterns, each by the literal that follows the number
amount_patterns == <<"jt", "rb", "k", "">>

\* the multiplier the code applies once a pattern has matched
Multiplier(input_lower) ==
    IF Contains(input_lower, "jt") THEN 1000000
    ELSE IF Contains(input_lower, "rb") THEN 1000
    ELSE IF Contains(input_lower, "k") THEN 1000
    ELSE 1

\* the patterns of amount_patterns that match, by their place in the list
MatchingPatterns(input_lower) ==
    {p \in 1..Len(amount_patterns) : ReSearch(input_lower, amount_patterns[p]).found}

\* FirstMatchAmount taking the first number of the text, whichever pattern it
\* belongs to
FirstMatchAmountLeftmost(input_lower, hits) ==
    Times(DecimalValue(ReSearch(input_lower, "").group), Multiplier(input_lower))

\* the amount the first matching pattern gives: float(match.group(1)), multiplied
FirstMatchAmount(input_lower, hits) ==
    Times(DecimalValue(ReSearch(input_lower, amount_patterns[Least(hits)]).group),
          Multiplier(input_lower))

\* ExtractAmount with a default of 1 where the code leaves 0
ExtractAmountDefaultOne(input_lower) ==
    IF MatchingPatterns(input_lower) = {} THEN PyInt(1)
    ELSE FirstMatchAmount(input_lower, MatchingPatterns(input_lower))

\* result['nominal'] after the loop over amount_patterns (0 when none matches)
ExtractAmount(input_lower) ==
    IF MatchingPatterns(input_lower) = {} THEN PyInt(0)
    ELSE FirstMatchAmount(input_lower, MatchingPatterns(input_lower))

(***************************************************************************)
(* Keyword tables                                                          *)
(***************************************************************************)
\* _parse_with_ai: the keywords of the cross-check
ai_transfer_keywords ==
    {"transfer", "pindah", "tarik tunai", "ambil tunai", "dari", "ke",
     "topup", "top up", "isi", "isi saldo"}

ai_withdrawal_keywords == {"tarik tunai", "ambil tunai"}

\* _parse_with_fallback
transfer_keywords ==
    {"transfer", "pindah", "tarik tunai", "tarik", "ambil", "kirim", "dari", "ke",
     "topup", "top up", "isi", "isi saldo"}

withdrawal_keywords == {"tarik tunai", "ambil tunai", "tarik", "ambil"}

topup_keywords == {"topup", "top up", "isi", "isi saldo"}

\* the words the top-up scan skips: the five listed and the top-up keywords
\* with their spaces removed
transfer_skip_words == {"topup", "top", "up", "isi", "saldo", "isisaldo"}

\* the words before or after "ke" that are taken for the action, not an account
ke_action_words == {"transfer", "pindah", "tarik", "ambil", "kirim", "topup", "isi"}

income_keywords ==
    {"gaji", "salary", "bonus", "terima", "dapat", "penghasilan", "pendapatan",
     "insentif"}

food_keywords ==
    {"makan", "kopi", "nasi", "ayam", "ikan", "daging", "sayur", "buah", "jus",
     "minum", "bakso", "mie", "soto", "rawon", "gulai", "rendang", "gudeg",
     "pecel", "karedok", "dimsum", "pizza", "burger", "kentang", "goreng",
     "bakar", "kukus", "rebus", "roti", "kue", "donat", "martabak", "pancake",
     "waffle", "es", "soda", "lawson", "indomaret", "alfamart", "familymart",
     "circle k", "shell select", "restoran", "warung", "cafe", "kedai", "kantin",
     "food court", "foodcourt"}

transport_keywords ==
    {"gojek", "grab", "uber", "taxi", "ojek", "angkot", "bus", "kereta",
     "pesawat", "bensin", "pertamax", "pertalite", "solar", "parkir", "tol",
     "tiket", "terminal", "stasiun", "bandara", "transport", "perjalanan",
     "jalan", "naik", "turun"}

shopping_keywords ==
    {"beli", "belanja", "shop", "mall", "supermarket", "minimarket", "pasar",
     "toko", "warung", "kios", "baju", "celana", "sepatu", "tas", "topi",
     "elektronik", "handphone", "laptop", "charger", "kabel", "baterai",
     "kosmetik", "sabun", "shampoo", "sampo", "cream", "parfum", "skincare",
     "shopee", "tokopedia", "bukalapak", "lazada", "blibli", "jd.id", "zalora"}

entertainment_keywords ==
    {"nonton", "bioskop", "film", "konser", "musik", "game", "gaming", "main",
     "hiburan", "entertainment", "rekreasi", "liburan", "wisata", "hotel",
     "penginapan", "villa", "resort", "travel", "tour", "tiket wisata"}

\* _detect_account_from_word: the words that are never an account
word_transfer_keywords ==
    {"transfer", "pindah", "tarik", "ambil", "kirim", "dari", "ke", "topup",
     "top", "up", "isi", "saldo", "tunai"}

\* _detect_account_from_word and the withdrawal scan: the bank names
word_specific_banks ==
    {"bca", "bri", "bni", "mandiri", "btn", "cimb", "danamon", "mega", "permata",
     "panin", "bukopin", "maybank", "bjb", "bsi", "btpn", "jenius", "neo",
     "seabank", "uob", "ocbc", "dbs", "hsbc"}

\* _detect_account_from_word: account_mapping, in the order of the dict
account_mapping ==
    << [account |-> "cash",   keywords |-> {"cash", "tunai", "uang"}],
       [account |-> "dana",   keywords |-> {"dana"}],
       [account |-> "gopay",  keywords |-> {"gopay", "gojek"}],
       [account |-> "ovo",    keywords |-> {"ovo"}],
       [account |-> "shopee", keywords |-> {"shopee", "shopeepay"}],
       [account |-> "bank",   keywords |-> {"bank", "rekening"}] >>

\* _detect_account_for_transaction: the bank names, in the order they are tried
specific_banks ==
    <<"bca", "bri", "bni", "mandiri", "btn", "cimb", "danamon", "mega", "permata",
      "panin", "bukopin", "maybank">>

\* _detect_account_for_transaction: platform_payment_map, in the order of the dict
platform_payment_map ==
    << [platform |-> "shopee",    payment |-> "shopeepay"],
       [platform |-> "tokopedia", payment |-> "cash"],
       [platform |-> "bukalapak", payment |-> "cash"],
       [platform |-> "lazada",    payment |-> "cash"],
       [platform |-> "blibli",    payment |-> "cash"],
       [platform |-> "jd.id",     payment |-> "cash"],
       [platform |-> "zalora",    payment |-> "cash"] >>

\* _detect_account_for_transaction: payment_keywords, in the order of the dict
payment_keywords ==
    << [account |-> "shopeepay", keywords |-> {"shopeepay", "shopee pay"}],
       [account |-> "dana",      keywords |-> {"dana"}],
       [account |-> "gopay",     keywords |-> {"gopay"}],
       [account |-> "ovo",       keywords |-> {"ovo"}],
       [account |-> "cash",      keywords |-> {"cash", "tunai", "cod"}] >>

\* _detect_account_for_transaction: account_keywords, in the order of the dict
account_keywords ==
    << [account |-> "cash",         keywords |-> {"cash", "tunai"}],
       [account |-> "bank",         keywords |-> {"bank", "rekening"}],
       [account |-> "dana",         keywords |-> {"dana"}],
       [account |-> "gopay",        keywords |-> {"gopay"}],
       [account |-> "ovo",          keywords |-> {"ovo"}],
       [account |-> "shopee",       keywords |-> {"shopee", "shopeepay"}],
       [account |-> "kartu kredit",
        keywords |-> {"kartu kredit", "credit card", "cc", "visa", "mastercard"}] >>

(***************************************************************************)
(* Account detectors                                                       *)
(***************************************************************************)
\* the entries of account_mapping that list the word
AccountMappingHits(word_lower) ==
    {k \in 1..Len(account_mapping) : word_lower \in account_mapping[k].keywords}

\* the account _detect_account_from_word returns for word_lower
AccountOfWord(word_lower, hits) ==
    IF word_lower \in word_transfer_keywords THEN "cash"
    ELSE IF word_lower \in word_specific_banks THEN word_lower
    ELSE IF hits # {} THEN account_mapping[Least(hits)].account
    ELSE word_lower

\* _detect_account_from_word(word)
DetectAccountFromWord(word) == AccountOfWord(Lower(word), AccountMappingHits(Lower(word)))

\* the account _detect_account_for_transaction returns, given the banks,
\* platforms, payment methods and account types found in the text (by their
\* place in the tables)
FirstAccount(category, banks, platforms, payments, accounts) ==
    IF banks # {} THEN specific_banks[Least(banks)]
    ELSE IF category = "belanja" /\ platforms # {}
    THEN IF payments # {} THEN payment_keywords[Least(payments)].account
         ELSE platform_payment_map[Least(platforms)].payment
    ELSE IF accounts # {} THEN account_keywords[Least(accounts)].account
    ELSE "cash"

\* _detect_account_for_transaction(input_lower, category)
DetectAccountForTransaction(input_lower, category) ==
    FirstAccount(category,
        {k \in 1..Len(specific_banks) : Contains(input_lower, specific_banks[k])},
        {k \in 1..Len(platform_payment_map) :
            Contains(input_lower, platform_payment_map[k].platform)},
        {k \in 1..Len(payment_keywords) :
            ContainsAny(input_lower, payment_keywords[k].keywords)},
        {k \in 1..Len(account_keywords) :
            ContainsAny(input_lower, account_keywords[k].keywords)})

(***************************************************************************)
(* Python conversions the validator applies                                *)
(***************************************************************************)
\* str(v): an int by its digits, a float by its repr
PyStr(v) ==
    CASE v.t = "str"     -> v.s
      [] v.t = "none"    -> "None"
      [] v.t = "nan"     -> "nan"
      [] v.t = "inf"     -> IF v.n < 0 THEN "-inf" ELSE "inf"
      [] v.t = "negzero" -> "-0.0"
      [] v.t = "int"     -> IF v.n < 0 THEN "-" \o NatToStr(0 - v.n) ELSE NatToStr(v.n)
      [] v.t = "num"     ->
            IF v.n = 0 THEN "0.0"
            ELSE IF v.n < 0 THEN "-" \o ReprPositive(Negated(v))
            ELSE ReprPositive(v)

\* float(v): [ok, value]; not ok stands for the ValueError or TypeError float raises
PyFloat(v) ==
    CASE v.t = "int"  -> [ok |-> TRUE, value |-> Float(v.n, 1)]
      [] v.t = "none" -> [ok |-> FALSE, value |-> NaN]
      [] v.t = "str"  -> FloatOfStr(v.s)
      [] OTHER        -> [ok |-> TRUE, value |-> v]

\* data.get(key, default)
Get(data, key, default) == IF key \in DOMAIN data THEN data[key] ELSE default

(***************************************************************************)
(* What a parser path hands back: a validated dict, or the exception it    *)
(* raised, by its message                                                  *)
(***************************************************************************)
NoValue == [tipe |-> ""]

Ok(value) == [ok |-> TRUE, value |-> value, err |-> ""]

Raise(message) == [ok |-> FALSE, value |-> NoValue, err |-> message]

(***************************************************************************)
(* _validate_transaction_data(data)                                        *)
(***************************************************************************)
\* StripOr without the default
StripOnly(x, default) == Strip(x)

\* x.strip(), or the default when that is empty
StripOr(x, default) == IF Strip(x) = "" THEN default ELSE Strip(x)

\* ValidTipe of a validator that keeps whatever type it is given
ValidTipeAsGiven(tipe) == tipe

\* tipe, or the default when it is none of the three types
ValidTipe(tipe) ==
    IF tipe \in {"pemasukan", "pengeluaran", "transfer"} THEN tipe ELSE "pengeluaran"

\* validated, given the validated tipe and float(nominal)
Validated(data, tipe, nominal) ==
    IF ~nominal.ok \/ LeqZero(nominal.value)
    THEN Raise("Invalid nominal amount")
    ELSE IF tipe = "transfer"
    THEN Ok([tipe |-> tipe,
             nominal |-> nominal.value,
             akun_asal |-> StripOr(PyStr(Get(data, "akun_asal", Str("cash"))), "cash"),
             akun_tujuan |-> StripOr(PyStr(Get(data, "akun_tujuan", Str("cash"))), "cash"),
             kategori |-> "transfer",
             catatan |-> StripOr(PyStr(Get(data, "catatan", Str(""))), "Transaksi")])
    ELSE Ok([tipe |-> tipe,
             nominal |-> nominal.value,
             akun |-> StripOr(PyStr(Get(data, "akun", Str("cash"))), "cash"),
             kategori |-> StripOr(PyStr(Get(data, "kategori", Str("lainnya"))), "lainnya"),
             catatan |-> StripOr(PyStr(Get(data, "catatan", Str(""))), "Transaksi")])

\* _validate_transaction_data(data)
ValidateTransactionData(data) ==
    Validated(data,
              ValidTipe(Lower(PyStr(Get(data, "tipe", Str(""))))),
              PyFloat(Get(data, "nominal", PyInt(0))))

(***************************************************************************)
(* _parse_with_fallback(user_input)                                        *)
(***************************************************************************)
\* words[i], i counted from 0 as in the code
At(words, i) == words[i + 1]

\* the index (from 0) the loop over enumerate(words) leaves: the last
\* occurrence of the connector, -1 when there is none
ConnectorIndex(words, connector) ==
    IF \A i \in 0..(Len(words) - 1) : At(words, i) # connector THEN -1
    ELSE CHOOSE i \in 0..(Len(words) - 1) :
            /\ At(words, i) = connector
            /\ \A j \in (i + 1)..(Len(words) - 1) : At(words, j) # connector

\* the places of the words the withdrawal scan stops at
WithdrawalAt(words) ==
    {i \in 0..(Len(words) - 1) :
        /\ DetectAccountFromWord(At(words, i)) # "cash"
        /\ DetectAccountFromWord(At(words, i)) \in word_specific_banks}

\* the withdrawal scan: the first word that is a bank name
WithdrawalAccounts(words) ==
    IF WithdrawalAt(words) = {} THEN [source |-> "cash", dest |-> "cash"]
    ELSE [source |-> DetectAccountFromWord(At(words, Least(WithdrawalAt(words)))),
          dest |-> "cash"]

\* the places of the words the top-up scan stops at
TopupAt(words) ==
    {i \in 0..(Len(words) - 1) :
        /\ Lower(At(words, i)) \notin transfer_skip_words
        /\ DetectAccountFromWord(At(words, i)) # "cash"
        /\ DetectAccountFromWord(At(words, i)) \notin transfer_skip_words}

\* the top-up scan: the first word, skip words aside, not detected as cash
TopupAccounts(words) ==
    IF TopupAt(words) = {} THEN [source |-> "cash", dest |-> "cash"]
    ELSE [source |-> "cash",
          dest |-> DetectAccountFromWord(At(words, Least(TopupAt(words))))]

\* the accounts after the withdrawal or top-up scan
SpecialAccounts(input_lower, words) ==
    IF ContainsAny(input_lower, withdrawal_keywords) THEN WithdrawalAccounts(words)
    ELSE IF ContainsAny(input_lower, topup_keywords) THEN TopupAccounts(words)
    ELSE [source |-> "cash", dest |-> "cash"]

\* "source ke destination": the source
KeSource(words, ke_index, special) ==
    IF ke_index > 0
    THEN IF Lower(At(words, ke_index - 1)) \in ke_action_words
         THEN IF ke_index > 1
              THEN DetectAccountFromWord(At(words, ke_index - 2))
              ELSE special.source
         ELSE DetectAccountFromWord(At(words, ke_index - 1))
    ELSE special.source

\* "source ke destination": the destination
KeDest(words, ke_index, special) ==
    IF ke_index + 1 < Len(words) /\ Lower(At(words, ke_index + 1)) \notin ke_action_words
    THEN DetectAccountFromWord(At(words, ke_index + 1))
    ELSE special.dest

\* "Transfer X ke Y"
TransferXKeY(words, ke_index) ==
    ke_index > 1 /\ Lower(At(words, ke_index - 2)) = "transfer"

\* the accounts after the "dari ... ke ..." and "... ke ..." rules
ConnectorAccounts(words, dari_index, ke_index, special) ==
    IF dari_index # -1 /\ ke_index # -1 /\ ke_index > dari_index
    THEN [source |-> IF dari_index + 1 < Len(words)
                     THEN DetectAccountFromWord(At(words, dari_index + 1))
                     ELSE special.source,
          dest   |-> IF ke_index + 1 < Len(words)
                     THEN DetectAccountFromWord(At(words, ke_index + 1))
                     ELSE special.dest]
    ELSE IF ke_index # -1
    THEN [source |-> IF TransferXKeY(words, ke_index)
                     THEN DetectAccountFromWord(At(words, ke_index - 1))
                     ELSE KeSource(words, ke_index, special),
          dest   |-> IF TransferXKeY(words, ke_index) /\ ke_index + 1 < Len(words)
                     THEN DetectAccountFromWord(At(words, ke_index + 1))
                     ELSE KeDest(words, ke_index, special)]
    ELSE special

\* source_account and dest_account of a text with a transfer keyword
TransferAccounts(input_lower) ==
    ConnectorAccounts(Split(input_lower),
                      ConnectorIndex(Split(input_lower), "dari"),
                      ConnectorIndex(Split(input_lower), "ke"),
                      SpecialAccounts(input_lower, Split(input_lower)))

\* result['tipe'] with the transfer keywords deciding after the income keywords
FallbackTipeTransferLast(input_lower) ==
    IF ContainsAny(input_lower, transfer_keywords) THEN "transfer"
    ELSE IF ContainsAny(input_lower, income_keywords) THEN "pemasukan"
    ELSE "pengeluaran"

\* result['tipe'] before validation
FallbackTipe(input_lower) ==
    IF ContainsAny(input_lower, income_keywords) THEN "pemasukan"
    ELSE IF ContainsAny(input_lower, transfer_keywords) THEN "transfer"
    ELSE "pengeluaran"

\* result['kategori'] before validation
FallbackKategori(input_lower) ==
    IF FallbackTipe(input_lower) = "pemasukan" THEN "gaji"
    ELSE IF FallbackTipe(input_lower) = "transfer" THEN "transfer"
    ELSE IF ContainsAny(input_lower, food_keywords) THEN "makanan"
    ELSE IF ContainsAny(input_lower, transport_keywords) THEN "transportasi"
    ELSE IF ContainsAny(input_lower, shopping_keywords) THEN "belanja"
    ELSE IF ContainsAny(input_lower, entertainment_keywords) THEN "hiburan"
    ELSE "lainnya"

\* result, the transfer accounts aside
RegularResult(user_input, input_lower, tipe, kategori) ==
    [tipe |-> Str(tipe),
     nominal |-> ExtractAmount(input_lower),
     akun |-> Str(IF tipe = "transfer" THEN "cash"
                  ELSE DetectAccountForTransaction(input_lower, kategori)),
     kategori |-> Str(kategori),
     catatan |-> Str(user_input)]

\* result with akun_asal and akun_tujuan set
WithAccounts(result, accounts) ==
    [k \in DOMAIN result \cup {"akun_asal", "akun_tujuan"} |->
        IF k = "akun_asal" THEN Str(accounts.source)
        ELSE IF k = "akun_tujuan" THEN Str(accounts.dest)
        ELSE result[k]]

\* result, for a text and its lower case
ResultOf(user_input, input_lower) ==
    IF ContainsAny(input_lower, transfer_keywords)
    THEN WithAccounts(RegularResult(user_input, input_lower, FallbackTipe(input_lower),
                                    FallbackKategori(input_lower)),
                      TransferAccounts(input_lower))
    ELSE RegularResult(user_input, input_lower, FallbackTipe(input_lower),
                       FallbackKategori(input_lower))

\* the dict the fallback parser hands to the validator
FallbackResult(user_input) == ResultOf(user_input, Lower(user_input))

\* the check of result['nominal'], then the validator
CheckAmount(result) ==
    IF LeqZero(result["nominal"])
    THEN Raise("Could not extract valid amount from input")
    ELSE ValidateTransactionData(result)

\* _parse_with_fallback of a parser that reads the word after "ke" without
\* looking whether there is one
ParseWithFallbackKeLast(user_input) ==
    IF Split(Lower(user_input)) # << >>
          /\ Split(Lower(user_input))[Len(Split(Lower(user_input)))] = "ke"
    THEN Raise("list index out of range")
    ELSE CheckAmount(FallbackResult(user_input))

\* _parse_with_fallback(user_input)
ParseWithFallback(user_input) == CheckAmount(FallbackResult(user_input))

(***************************************************************************)
(* The oracle (self.model.generate_content) and its response               *)
(*                                                                         *)
(* A response is [raises, text, doc]. raises: the call raised. text is     *)
(* response.text, in which the character DocMark stands for the document   *)
(* the oracle wrote (the text around it is spelled out), and doc is that   *)
(* document: a JSON object (t = "object", obj its fields), valid JSON that *)
(* is no object (t = "scalar"), or text that is no JSON (t = "garbage").   *)
(***************************************************************************)
DocMark == "@"

\* a code-fence marker; "^" stands for the backquote, which a TLA+ string cannot hold
Fence == "^^^"

Garbage == [t |-> "garbage", obj |-> [tipe |-> None]]

Scalar == [t |-> "scalar", obj |-> [tipe |-> None]]

Object(obj) == [t |-> "object", obj |-> obj]

DropJsonFence(json_text) ==
    IF StartsWith(json_text, Fence \o "json") THEN DropFirst(json_text, 7) ELSE json_text

DropOpeningFence(json_text) ==
    IF StartsWith(json_text, Fence) THEN DropFirst(json_text, 3) ELSE json_text

DropClosingFence(json_text) ==
    IF EndsWith(json_text, Fence) THEN DropLast(json_text, 3) ELSE json_text

\* the fence markers and surrounding whitespace removed, as _parse_with_ai does
StripFences(text) == Strip(DropClosingFence(DropOpeningFence(DropJsonFence(Strip(text)))))

\* json.loads(json_text) succeeds: nothing but a JSON document is left
JsonLoads(json_text, doc) == json_text = DocMark /\ doc.t \in {"object", "scalar"}

\* the fields _parse_with_ai requires of a declared type
RequiredFields(tipe) ==
    IF tipe = "transfer"
    THEN <<"tipe", "nominal", "akun_asal", "akun_tujuan", "catatan">>
    ELSE <<"tipe", "nominal", "akun", "kategori", "catatan">>

\* HasTransferKeywords with the withdrawal and top-up keywords only
HasSpecialKeywordsOnly(user_input) ==
    \/ ContainsAny(Lower(user_input), ai_withdrawal_keywords)
    \/ ContainsAny(Lower(user_input), topup_keywords)

\* the cross-check fires: a transfer, withdrawal or top-up keyword in the input
HasTransferKeywords(user_input) ==
    \/ ContainsAny(Lower(user_input), ai_transfer_keywords)
    \/ ContainsAny(Lower(user_input), ai_withdrawal_keywords)
    \/ ContainsAny(Lower(user_input), topup_keywords)

(***************************************************************************)
(* _parse_with_ai(user_input), given what the oracle answers.              *)
(* [res, crosscheck]: what it hands back, and whether it ran the fallback  *)
(* parser for the cross-check.                                             *)
(***************************************************************************)
\* the required fields parsed_data lacks, by their place in the list
MissingFields(parsed_data, tipe) ==
    {k \in 1..Len(RequiredFields(tipe)) : RequiredFields(tipe)[k] \notin DOMAIN parsed_data}

\* the check of the required fields, then the validator
CheckFields(parsed_data, tipe) ==
    IF MissingFields(parsed_data, tipe) # {}
    THEN Raise("Missing required field: "
               \o RequiredFields(tipe)[Least(MissingFields(parsed_data, tipe))])
    ELSE ValidateTransactionData(parsed_data)

\* the cross-check has run the fallback parser: its exception leaves
\* _parse_with_ai, its transfer replaces parsed_data, anything else is dropped
CrossChecked(parsed_data, tipe, fallback_result) ==
    IF ~fallback_result.ok \/ fallback_result.value.tipe = "transfer"
    THEN [res |-> fallback_result, crosscheck |-> TRUE]
    ELSE [res |-> CheckFields(parsed_data, tipe), crosscheck |-> TRUE]

\* _parse_with_ai from the cross-check on, tipe the declared type in lower case
CrossCheck(user_input, parsed_data, tipe) ==
    IF HasTransferKeywords(user_input) /\ tipe # "transfer"
    THEN CrossChecked(parsed_data, tipe, ParseWithFallback(user_input))
    ELSE [res |-> CheckFields(parsed_data, tipe), crosscheck |-> FALSE]

ParseWithAI(user_input, response) ==
    IF response.raises
    THEN [res |-> Raise("oracle error"), crosscheck |-> FALSE]
    ELSE IF response.text = ""
    THEN [res |-> Raise("Empty response from Gemini AI"), crosscheck |-> FALSE]
    ELSE IF ~JsonLoads(StripFences(response.text), response.doc)
    THEN [res |-> Raise("JSONDecodeError"), crosscheck |-> FALSE]
    ELSE IF response.doc.t # "object" \/ Get(response.doc.obj, "tipe", Str("")).t # "str"
    THEN [res |-> Raise("AttributeError"), crosscheck |-> FALSE]
    ELSE CrossCheck(user_input, response.doc.obj,
                    Lower(Get(response.doc.obj, "tipe", Str("")).s))

(***************************************************************************)
(* parse_transaction(user_input)                                           *)
(***************************************************************************)
\* the "/input " prefix removed
DropCommand(cleaned_input) ==
    IF StartsWith(cleaned_input, "/input ") THEN DropFirst(cleaned_input, 7)
    ELSE cleaned_input

\* CleanInput without the strip
CleanInputNoStrip(user_input) == DropCommand(user_input)

\* cleaned_input
CleanInput(user_input) == DropCommand(Strip(user_input))

\* the prompt sent to the oracle: config/transaction_prompt.txt is absent, so
\* _fallback_prompt builds it, the input between PromptHead and PromptRules
PromptHead == "\nAnalyze this transaction: \""

\* the character U+2192 (an arrow) of the prompt's examples, which a TLC string
\* cannot hold
Arrow == ">"

\* the fixed instructions of the prompt, line by line
PromptRules ==
    "\"\n"
    \o "\n"
    \o "IMPORTANT: First determine if this is a TRANSFER or REGULAR transaction.\n"
    \o "\n"
    \o "TRANSFER indicators:\n"
    \o "- Words like: transfer, pindah, tarik tunai, ambil tunai, dari, ke, topup, isi\n"
    \o "- Patterns like: \"Transfer X ke Y\", \"dari X ke Y\", \"X ke Y\" (where X and Y are accounts)\n"
    \o "- Withdrawal patterns: \"Tarik tunai BANK\", \"Ambil tunai dari BANK\" (BANK to cash)\n"
    \o "- Topup patterns: \"Topup GOPAY\", \"Isi saldo DANA\" (cash to e-wallet)\n"
    \o "- Moving money between accounts\n"
    \o "\n"
    \o "If it's a TRANSFER, use this format:\n"
    \o "{\"tipe\": \"transfer\", \"nominal\": number, \"akun_asal\": \"source_account\", \"akun_tujuan\": \"destination_account\", \"catatan\": \"description\"}\n"
    \o "\n"
    \o "If it's a REGULAR transaction (income/expense), use this format:\n"
    \o "{\"tipe\": \"pemasukan|pengeluaran\", \"nominal\": number, \"akun\": \"account_name\", \"kategori\": \"category\", \"catatan\": \"description\"}\n"
    \o "\n"
    \o "Rules:\n"
    \o "- k=1000, rb=1000, jt=1000000\n"
    \o "- For transfers: extract source and destination accounts from the text\n"
    \o "- Common accounts: bca, bni, bri, mandiri, dana, gopay, ovo, cash\n"
    \o "- Default akun=\"cash\" for regular transactions\n"
    \o "- Default tipe=\"pengeluaran\" for regular transactions\n"
    \o "\n"
    \o "CATEGORY GUIDELINES for expenses:\n"
    \o "- makanan: food, drinks, restaurants, cafes, groceries, snacks (kopi, dimsum, bakso, etc.)\n"
    \o "- transportasi: gojek, grab, taxi, bensin, tol, parkir, transport\n"
    \o "- belanja: shopping, clothes, electronics, household items\n"
    \o "- hiburan: movies, games, entertainment, travel, hotel\n"
    \o "- lainnya: everything else not fitting above categories\n"
    \o "\n"
    \o "Examples:\n"
    \o "\"bakso 15k\" " \o Arrow
       \o " {\"tipe\": \"pengeluaran\", \"nominal\": 15000, \"akun\": \"cash\", \"kategori\": \"makanan\", \"catatan\": \"bakso\"}\n"
    \o "\"Kopi Lawson 20k\" " \o Arrow
       \o " {\"tipe\": \"pengeluaran\", \"nominal\": 20000, \"akun\": \"cash\", \"kategori\": \"makanan\", \"catatan\": \"Kopi Lawson\"}\n"
    \o "\"Dimsum di familymart 50k\" " \o Arrow
       \o " {\"tipe\": \"pengeluaran\", \"nominal\": 50000, \"akun\": \"cash\", \"kategori\": \"makanan\", \"catatan\": \"Dimsum di familymart\"}\n"
    \o "\"gaji 5jt ke bca\" " \o Arrow
       \o " {\"tipe\": \"pemasukan\", \"nominal\": 5000000, \"akun\": \"bca\", \"kategori\": \"gaji\", \"catatan\": \"gaji\"}\n"
    \o "\"bonus 1jt ke dana\" " \o Arrow
       \o " {\"tipe\": \"pemasukan\", \"nominal\": 1000000, \"akun\": \"dana\", \"kategori\": \"gaji\", \"catatan\": \"bonus\"}\n"
    \o "\"gojek ke kantor 20rb\" " \o Arrow
       \o " {\"tipe\": \"pengeluaran\", \"nominal\": 20000, \"akun\": \"cash\", \"kategori\": \"transportasi\", \"catatan\": \"gojek ke kantor\"}\n"
    \o "\"bensin 50rb\" " \o Arrow
       \o " {\"tipe\": \"pengeluaran\", \"nominal\": 50000, \"akun\": \"cash\", \"kategori\": \"transportasi\", \"catatan\": \"bensin\"}\n"
    \o "\"Transfer BNI ke BCA 1jt\" " \o Arrow
       \o " {\"tipe\": \"transfer\", \"nominal\": 1000000, \"akun_asal\": \"bni\", \"akun_tujuan\": \"bca\", \"catatan\": \"Transfer BNI ke BCA\"}\n"
    \o "\"dari cash ke dana 500k\" " \o Arrow
       \o " {\"tipe\": \"transfer\", \"nominal\": 500000, \"akun_asal\": \"cash\", \"akun_tujuan\": \"dana\", \"catatan\": \"dari cash ke dana\"}\n"
    \o "\"Tarik tunai BRI 1jt\" " \o Arrow
       \o " {\"tipe\": \"transfer\", \"nominal\": 1000000, \"akun_asal\": \"bri\", \"akun_tujuan\": \"cash\", \"catatan\": \"Tarik tunai BRI\"}\n"
    \o "\"Ambil tunai dari BCA 500k\" " \o Arrow
       \o " {\"tipe\": \"transfer\", \"nominal\": 500000, \"akun_asal\": \"bca\", \"akun_tujuan\": \"cash\", \"catatan\": \"Ambil tunai dari BCA\"}\n"
    \o "\"Topup gopay 30k\" " \o Arrow
       \o " {\"tipe\": \"transfer\", \"nominal\": 30000, \"akun_asal\": \"cash\", \"akun_tujuan\": \"gopay\", \"catatan\": \"Topup gopay\"}\n"
    \o "\"Isi saldo dana 50k\" " \o Arrow
       \o " {\"tipe\": \"transfer\", \"nominal\": 50000, \"akun_asal\": \"cash\", \"akun_tujuan\": \"dana\", \"catatan\": \"Isi saldo dana\"}\n"

CreateParsingPrompt(cleaned_input) == PromptHead \o cleaned_input \o PromptRules

EmptyInputError == "Failed to parse transaction: Empty transaction input"

TerminalError ==
    "Failed to parse transaction: Unable to parse transaction. "
    \o "Please try a simpler format like 'bakso 15k cash'"

(***************************************************************************)
(* The state: the call in progress on the global transaction_parser, and   *)
(* what an observer of the earlier calls has seen                          *)
(***************************************************************************)
VARIABLES
    pc,           \* "idle", "oracle" (the call waits for the oracle), "done"
    user_input,   \* the argument of the call
    response,     \* the oracle's answer to the call
    outcome,      \* what the call handed to its caller
    events,       \* the steps of the call so far, in order
    answered,     \* prompt -> the answer the oracle gave to it
    results,      \* input text -> the outcome of the first call on it
    calls,        \* the number of calls made
    message,      \* the argument of the chat handler or of a utility function,
                  \* a Python value
    ledger,       \* what ExpenseManager.process_transaction returned
    reply,        \* what the chat handler shows the user, or the utility returns
    handler,      \* where the chat handler is: "idle", "processing" (the
                  \* processing message is shown, the parser not yet called),
                  \* "parsing" (the parser waits for the oracle), "returned"
    concurrent,   \* caller -> the call it has in progress on the shared parser
    transaction_parser
                  \* the attributes of the global parser instance, which every
                  \* call is made on

vars ==
    <<pc, user_input, response, outcome, events, answered, results, calls,
      message, ledger, reply, handler, concurrent, transaction_parser>>

observed == <<answered, results, calls>>

interface == <<message, ledger, reply, handler>>

Has(seq, e) == \E i \in DOMAIN seq : seq[i] = e

\* the event of the cross-check, if it ran the fallback parser
CrossCheckEvents(ai) == IF ai.crosscheck THEN <<"crosscheck_fallback">> ELSE << >>

\* AfterAiFailed of a parser that asks the oracle a second time before it
\* turns to the fallback parser
AfterAiFailedRetry(ai, fallback) ==
    IF fallback.ok
    THEN [res |-> fallback,
          events |-> CrossCheckEvents(ai)
                     \o <<"ai_failed", "oracle", "ai_failed", "fallback", "fallback_ok", "return">>]
    ELSE [res |-> Raise(TerminalError),
          events |-> CrossCheckEvents(ai)
                     \o <<"ai_failed", "oracle", "ai_failed", "fallback", "fallback_failed", "raise">>]

\* AfterAiFailed of a parser that, when the fallback parser fails too, lets
\* the model-backed parser's own error reach the caller
AfterAiFailedReraise(ai, fallback) ==
    IF fallback.ok
    THEN [res |-> fallback,
          events |-> CrossCheckEvents(ai)
                     \o <<"ai_failed", "fallback", "fallback_ok", "return">>]
    ELSE [res |-> ai.res,
          events |-> CrossCheckEvents(ai)
                     \o <<"ai_failed", "fallback", "fallback_failed", "raise">>]

\* the except branch of parse_transaction: the fallback parser's result, or
\* the terminal error
AfterAiFailed(ai, fallback) ==
    IF fallback.ok
    THEN [res |-> fallback,
          events |-> CrossCheckEvents(ai)
                     \o <<"ai_failed", "fallback", "fallback_ok", "return">>]
    ELSE [res |-> Raise(TerminalError),
          events |-> CrossCheckEvents(ai)
                     \o <<"ai_failed", "fallback", "fallback_failed", "raise">>]

\* the try of parse_transaction: the model-backed parser's result, or the
\* except branch
AfterAi(cleaned_input, ai) ==
    IF ai.res.ok
    THEN [res |-> ai.res, events |-> CrossCheckEvents(ai) \o <<"ai_ok", "return">>]
    ELSE AfterAiFailed(ai, ParseWithFallback(cleaned_input))

\* AfterOracle with the fallback parser tried before the oracle's answer is read
AfterOracleFallbackFirst(cleaned_input, oracle_response) ==
    IF ParseWithFallback(cleaned_input).ok
    THEN [res |-> ParseWithFallback(cleaned_input),
          events |-> <<"fallback", "fallback_ok", "return">>]
    ELSE IF ParseWithAI(cleaned_input, oracle_response).res.ok
    THEN [res |-> ParseWithAI(cleaned_input, oracle_response).res,
          events |-> <<"fallback", "fallback_failed">>
                     \o CrossCheckEvents(ParseWithAI(cleaned_input, oracle_response))
                     \o <<"ai_ok", "return">>]
    ELSE [res |-> Raise(TerminalError),
          events |-> <<"fallback", "fallback_failed">>
                     \o CrossCheckEvents(ParseWithAI(cleaned_input, oracle_response))
                     \o <<"ai_failed", "raise">>]

\* parse_transaction from the oracle's answer on: [res, events], the events
\* being the steps taken, in order
AfterOracle(cleaned_input, oracle_response) ==
    AfterAi(cleaned_input, ParseWithAI(cleaned_input, oracle_response))

(***************************************************************************)
(* The inputs and the oracle's answers the model is run on                 *)
(***************************************************************************)
\* the longest generated text, in words
MaxWords == 2

\* the words generated texts are made of
Vocabulary ==
    {"bakso", "15k", "5jt", "20rb", "500", "ke", "dari", "bca", "gaji"}

RECURSIVE Texts(_)
\* the texts of 1..k words of the vocabulary, a space between words
Texts(k) ==
    IF k = 0 THEN {}
    ELSE Vocabulary \cup Texts(k - 1)
         \cup {t \o " " \o w : t \in Texts(k - 1), w \in Vocabulary}

\* the texts of the spec's scenarios, of the prompt's examples and of test_parser
ScenarioTexts ==
    {"bakso 15k pake cash", "gaji bulan ini 5jt ke bank", "Tarik tunai BRI 1jt",
     "Topup gopay 30k", "gojek ke kantor 20rb", "beli buku 50rb pake dana",
     "makan siang 25k", "Transfer BNI ke BCA 1jt", "dari cash ke dana 500k",
     "bayar listrik 75rb", "kado 1.5jt", "transfer 500rb ke jtrust", "isi pulsa",
     "kirim 50rb", "0", "bakso 0", "beli hp 4.1jt", "kopi 1.001rb",
     "", "   ", " \t\n", "/input", "/input ", "/input bakso 15k",
     "  bakso 15k  ", "/input  bakso 15k  ",
     "", " ", "bakso 15k", "2 x 3k", "topupgopay 30k"}

Inputs == ScenarioTexts \cup Texts(MaxWords)

BaseExpense ==
    [tipe |-> Str("pengeluaran"), nominal |-> PyInt(15000), akun |-> Str("cash"),
     kategori |-> Str("makanan"), catatan |-> Str("bakso")]

BaseIncome ==
    [tipe |-> Str("pemasukan"), nominal |-> PyInt(5000000), akun |-> Str("bank"),
     kategori |-> Str("gaji"), catatan |-> Str("gaji bulan ini")]

BaseTransfer ==
    [tipe |-> Str("transfer"), nominal |-> PyInt(1000000), akun_asal |-> Str("bri"),
     akun_tujuan |-> Str("cash"), catatan |-> Str("Tarik tunai BRI")]

\* obj without the field k
Without(obj, k) == [f \in DOMAIN obj \ {k} |-> obj[f]]

\* obj with the field k set to v
With(obj, k, v) == [f \in DOMAIN obj \cup {k} |-> IF f = k THEN v ELSE obj[f]]

\* the objects the oracle may write: the three well-formed ones, each with one
\* field missing, and each with one field off
OracleObjects ==
    {BaseExpense, BaseIncome, BaseTransfer}
    \cup {Without(b, k) : b \in {BaseExpense, BaseTransfer}, k \in DOMAIN BaseExpense \cup DOMAIN BaseTransfer}
    \cup {With(BaseExpense, "nominal", v) :
            v \in {PyInt(0), PyInt(-5), Float(5, 10), Float(15000, 1), Float(0, 1),
                   NegZero, Inf(1), NaN, None, Str("15000"), Str("abc"), Str("nan"),
                   Str("inf"), Str("1e3"), Str(".5"), Str("2_000"), Str("5")}}
    \cup {With(BaseExpense, "tipe", v) :
            v \in {Str("PENGELUARAN"), Str("Transfer"), Str("belanja"), Str(""), None}}
    \cup {With(BaseExpense, "akun", v) :
            v \in {Str(""), Str("  BCA "), None, Float(1, 1), PyInt(15000)}}
    \cup {With(BaseExpense, "kategori", v) : v \in {Str(""), Str("food"), None}}
    \cup {With(BaseExpense, "catatan", v) : v \in {Str(""), Str("  ")}}
    \cup {With(BaseTransfer, "akun_asal", Str(" ")), With(BaseTransfer, "akun_tujuan", Str("")),
          With(BaseTransfer, "kategori", Str("makanan")),
          With(BaseTransfer, "nominal", PyInt(0)),
          With(BaseTransfer, "akun", Str("bank")),
          With(BaseExpense, "akun_asal", Str("bca"))}

Answer(text, doc) == [raises |-> FALSE, text |-> text, doc |-> doc]

OracleResponses ==
    {[raises |-> TRUE, text |-> "", doc |-> Garbage]}
    \cup {Answer("", Garbage), Answer(DocMark, Garbage), Answer(DocMark, Scalar)}
    \cup {Answer(text, Object(BaseExpense)) :
            text \in {"^^^json\n@\n^^^", "^^^\n@\n^^^", "  @\n", "^^^json@^^^",
                      "^^^JSON\n@\n^^^", "Here is the JSON: @", "@ ^^^json",
                      "@", "^^^json\n@\n^^^"}}
    \cup {Answer(DocMark, Object(obj)) : obj \in OracleObjects}

(***************************************************************************)
(* One parse_transaction call at a time on the shared parser               *)
(***************************************************************************)

NoResponse == [raises |-> FALSE, text |-> "", doc |-> Garbage]

NoOutcome == [ok |-> FALSE, value |-> NoValue, err |-> ""]

\* the oracle call of _parse_with_ai raises
OracleDown == [raises |-> TRUE, text |-> "", doc |-> Garbage]

\* self.model of an instance that has no model
NoModel == "None"

\* the instance after __init__: the key of the environment, and the model
\* built with it
Constructed == [api_key |-> "GEMINI_API_KEY", model |-> "gemini-2.0-flash"]

\* self.model.generate_content(prompt) on the attribute model: the oracle's
\* answer r, or the AttributeError of an instance that has no model
GenerateContent(model, r) == IF model = NoModel THEN OracleDown ELSE r

\* the callers that may have a call in progress at the same time
MaxCallers == 2

Callers == 1..MaxCallers

\* a caller with no call in progress
NoCall ==
    [pc |-> "idle", user_input |-> "", cleaned_input |-> "", prompt |-> "",
     model |-> NoModel, answer |-> NoResponse, response |-> NoResponse,
     parsed_data |-> Garbage, result |-> NoOutcome, outcome |-> NoOutcome,
     events |-> << >>]

\* process_transaction has not been called
NoLedger ==
    [called |-> FALSE, success |-> FALSE, error |-> "", inserted |-> 0,
     updates |-> << >>]

\* nothing is shown yet
NoReply == [kind |-> "", input |-> "", error |-> "", amount |-> ""]

Init ==
    /\ pc = "idle"
    /\ user_input = ""
    /\ response = NoResponse
    /\ outcome = NoOutcome
    /\ events = << >>
    /\ answered = << >>
    /\ results = << >>
    /\ calls = 0
    /\ message = None
    /\ ledger = NoLedger
    /\ reply = NoReply
    /\ handler = "idle"
    /\ concurrent = [c \in Callers |-> NoCall]
    /\ transaction_parser = Constructed

\* parse_transaction(text) up to the oracle call: an empty input fails at once
Start(text) ==
    /\ pc = "idle"
    /\ user_input' = text
    /\ response' = NoResponse
    /\ IF CleanInput(text) = ""
       THEN /\ pc' = "done"
            /\ outcome' = Raise(EmptyInputError)
            /\ events' = <<"raise">>
       ELSE /\ pc' = "oracle"
            /\ outcome' = NoOutcome
            /\ events' = <<"oracle">>
    /\ UNCHANGED transaction_parser

\* the call ends with rest: what it hands to the caller and the steps it took
Hand(rest) ==
    /\ outcome' = rest.res
    /\ events' = events \o rest.events

\* Finish of a parser that gives up its model once the model-backed parser
\* has failed: the except branch sets self.model to None
FinishDisabling(r) ==
    /\ pc = "oracle"
    /\ response' = GenerateContent(transaction_parser.model, r)
    /\ Hand(AfterOracle(CleanInput(user_input), response'))
    /\ pc' = "done"
    /\ transaction_parser' =
          IF Has(AfterOracle(CleanInput(user_input), response').events, "ai_failed")
          THEN [transaction_parser EXCEPT !.model = NoModel]
          ELSE transaction_parser
    /\ UNCHANGED user_input

\* generate_content returns or raises, on the model the instance has, and
\* parse_transaction runs to its end; it assigns no attribute of the instance
Finish(r) ==
    /\ pc = "oracle"
    /\ response' = GenerateContent(transaction_parser.model, r)
    /\ Hand(AfterOracle(CleanInput(user_input), response'))
    /\ pc' = "done"
    /\ UNCHANGED <<user_input, transaction_parser>>

\* the caller has the outcome; the parser is ready for the next message
HandOver ==
    /\ pc = "done"
    /\ pc' = "idle"
    /\ user_input' = ""
    /\ response' = NoResponse
    /\ outcome' = NoOutcome
    /\ events' = << >>
    /\ UNCHANGED transaction_parser

\* the three steps of a call, any oracle answer possible, nothing observed
Call(text) == Start(text) /\ UNCHANGED <<observed, interface, concurrent>>

OracleReturn(r) == Finish(r) /\ UNCHANGED <<observed, interface, concurrent>>

Deliver == HandOver /\ UNCHANGED <<observed, interface, concurrent>>

Next ==
    \/ \E text \in Inputs : Call(text)
    \/ \E r \in OracleResponses : OracleReturn(r)
    \/ Deliver

Spec == Init /\ [][Next]_vars

(***************************************************************************)
(* Repeated calls with an oracle that answers a prompt the same way each   *)
(* time                                                                    *)
(***************************************************************************)
\* the number of calls in a run
MaxCalls == 3

RepeatInputs ==
    {"bakso 15k", "/input bakso 15k ", "gojek ke kantor 20rb", "isi pulsa", " "}

RepeatResponses ==
    {[raises |-> TRUE, text |-> "", doc |-> Garbage],
     Answer("Here is the JSON: @", Object(BaseExpense)),
     Answer(DocMark, Object(BaseExpense)),
     Answer("^^^json\n@\n^^^", Object(BaseTransfer))}

\* one more call on the parser
RepeatCall(text) ==
    /\ calls < MaxCalls
    /\ Start(text)
    /\ calls' = calls + 1
    /\ UNCHANGED <<answered, results, interface, concurrent>>

\* r is the answer to the prompt: the one given before, or the first one
Consistent(prompt, r) ==
    /\ prompt \in DOMAIN answered => r = answered[prompt]
    /\ answered' = IF prompt \in DOMAIN answered THEN answered
                   ELSE answered @@ (prompt :> r)

\* the oracle answers the prompt as it answered it before, if it did
RepeatOracleReturn(r) ==
    /\ Consistent(CreateParsingPrompt(CleanInput(user_input)), r)
    /\ Finish(r)
    /\ UNCHANGED <<results, calls, interface, concurrent>>

\* the caller has the outcome and the observer notes the first one per text
RepeatDeliver ==
    /\ results' = IF user_input \in DOMAIN results THEN results
                  ELSE results @@ (user_input :> outcome)
    /\ HandOver
    /\ UNCHANGED <<answered, calls, interface, concurrent>>

NextRepeat ==
    \/ \E text \in RepeatInputs : RepeatCall(text)
    \/ \E r \in RepeatResponses : RepeatOracleReturn(r)
    \/ RepeatDeliver

SpecRepeat == Init /\ [][NextRepeat]_vars
(***************************************************************************)
(* The fallback parser on its own: parse_transaction with the oracle out   *)
(* of service (generate_content raises, and the except branch of           *)
(* parse_transaction calls _parse_with_fallback), on phrases of transfer,  *)
(* withdrawal and top-up words                                             *)
(***************************************************************************)
\* the longest generated phrase, in words
MaxPhrase == 3

PhraseWords ==
    {"tarik", "tunai", "topup", "isi", "transfer", "bri", "gopay", "ke", "dari",
     "30k", "gaji"}

RECURSIVE Phrases(_)
\* the phrases of 1..k of these words, a space between words
Phrases(k) ==
    IF k = 0 THEN {}
    ELSE PhraseWords \cup Phrases(k - 1)
         \cup {t \o " " \o w : t \in Phrases(k - 1), w \in PhraseWords}

\* withdrawal and top-up texts of the prompt's examples, and variations
TransferTexts ==
    {"Tarik tunai BRI 1jt", "Ambil tunai dari BCA 500k", "tarik tunai bri ke dana 1jt",
     "tarik tunai ke atm bri 1jt", "tarik tunai dari bca ke dana 1jt",
     "Topup gopay 30k", "Isi saldo dana 50k", "topup 30k gopay", "top up gopay 30k",
     "topup gopay dari bca 30k", "isi pulsa 50k", "gaji 50k cash", "bakso 15k",
     "beli buku 25rb dana", "0", "bakso 0 5", "ke 0", "dari 0.5 ke", "ke", "5 dari",
     "2 kopi 15k", "2 kopi", "3 roti 20000", "kopi 15 k",
     "bakso 15k jenius", "bakso 15k gopay", "bakso 15k gojek",
     "isi gopay 30k dari ke", "30k dari bca ke", "30k topup gopay dari bca ke",
     "beli hp 4.1jt", "kopi 1.001rb", "2 x 3k", "topupgopay 30k",
     "transfer bcake dana 5k"}

FallbackTexts == TransferTexts \cup Phrases(MaxPhrase)

FallbackCall(text) == Start(text) /\ UNCHANGED <<observed, interface, concurrent>>

FallbackOracleDown == Finish(OracleDown) /\ UNCHANGED <<observed, interface, concurrent>>

FallbackDeliver == HandOver /\ UNCHANGED <<observed, interface, concurrent>>

NextFallback ==
    \/ \E text \in FallbackTexts : FallbackCall(text)
    \/ FallbackOracleDown
    \/ FallbackDeliver

SpecFallback == Init /\ [][NextFallback]_vars

(***************************************************************************)
(* The utilities, and the chat handler with the ledger on top of the       *)
(* parser                                                                  *)
(***************************************************************************)
\* x rounded to the nearest whole number as format(x, '.0f') rounds it, for
\* the float x >= 0 that is u steps from the double nearest n / d: a tie goes
\* to the even neighbour, and a float next to a tie goes where it lies
RoundFloat(n, d, u) ==
    IF 2 * (n % d) < d THEN n \div d
    ELSE IF 2 * (n % d) > d THEN (n \div d) + 1
    ELSE IF u < 0 THEN n \div d
    ELSE IF u > 0 THEN (n \div d) + 1
    ELSE IF (n \div d) % 2 = 0 THEN n \div d
    ELSE (n \div d) + 1

\* the same for u = 0
RoundHalfEven(n, d) == RoundFloat(n, d, 0)

RECURSIVE Grouped(_)
\* the digits of k >= 0 with a comma between groups of three
Grouped(k) ==
    IF k < 1000 THEN NatToStr(k)
    ELSE Grouped(k \div 1000) \o "," \o ZeroPad(NatToStr(k % 1000), 3)

\* format_currency(amount)
FormatCurrency(amount) ==
    CASE amount.t = "nan"     -> "Rp nan"
      [] amount.t = "inf"     -> IF amount.n < 0 THEN "Rp -inf" ELSE "Rp inf"
      [] amount.t = "negzero" -> "Rp -0"
      [] OTHER ->
            IF amount.n < 0
            THEN "Rp -" \o Grouped(RoundFloat(0 - amount.n, amount.d, 0 - amount.u))
            ELSE "Rp " \o Grouped(RoundFloat(amount.n, amount.d, amount.u))

\* clean_transaction_input(text)
CleanTransactionInput(text) == Strip(DropCommand(Strip(text)))

\* _get_account_balance: the balance of every account
AccountBalance == Float(1000000, 1)

\* the two results of process_transaction, with the calls of the insert
\* helpers it made and the balance changes it passed to
\* _update_account_balance, in order
Succeeded(updates) ==
    [called |-> TRUE, success |-> TRUE, error |-> "", inserted |-> 1,
     updates |-> updates]

Failed(error, inserted) ==
    [called |-> TRUE, success |-> FALSE, error |-> error, inserted |-> inserted,
     updates |-> << >>]

\* the ValueError of the balance check, _get_account_name giving "cash"
InsufficientBalance(purpose, amount) ==
    "Saldo tidak cukup di akun cash" \o purpose \o ". Saldo tersedia: "
    \o FormatCurrency(AccountBalance) \o ", Dibutuhkan: " \o FormatCurrency(amount)

\* _process_regular_transaction: balance_change
BalanceChange(data) ==
    IF data.tipe = "pengeluaran" THEN Negated(data.nominal) ELSE data.nominal

\* process_transaction of a ledger that inserts the transaction before it
\* checks the balance
ProcessTransactionInsertFirst(data) ==
    IF data.tipe = "transfer"
    THEN IF Less(AccountBalance, data.nominal)
         THEN Failed(InsufficientBalance(" untuk transfer", data.nominal), 1)
         ELSE Succeeded(<<Negated(data.nominal), data.nominal>>)
    ELSE IF data.tipe = "pengeluaran" /\ Less(AccountBalance, data.nominal)
    THEN Failed(InsufficientBalance("", data.nominal), 1)
    ELSE Succeeded(<<BalanceChange(data)>>)

\* ExpenseManager.process_transaction(user_id, data): the balance check, then
\* the insert, then the balance updates
ProcessTransaction(data) ==
    IF data.tipe = "transfer"
    THEN IF Less(AccountBalance, data.nominal)
         THEN Failed(InsufficientBalance(" untuk transfer", data.nominal), 0)
         ELSE Succeeded(<<Negated(data.nominal), data.nominal>>)
    ELSE IF data.tipe = "pengeluaran" /\ Less(AccountBalance, data.nominal)
    THEN Failed(InsufficientBalance("", data.nominal), 0)
    ELSE Succeeded(<<BalanceChange(data)>>)

\* what is shown: the heading of the message, the input and the error it
\* quotes, and the amount it displays
Shown(kind, input, error, amount) ==
    [kind |-> kind, input |-> input, error |-> error, amount |-> amount]

\* the headings of the chat handler's messages; the last one is in the
\* handler's except ValueError branch
ParseFailedHeading == "Gagal Memproses Transaksi"

TransactionFailedHeading == "Transaksi Gagal"

BalanceHeading == "Transaksi Gagal - Saldo Tidak Cukup"

\* _process_transaction from the ledger's result on
ChatAfterLedger(text, data, result) ==
    IF result.success
    THEN Shown(IF data.tipe = "transfer" THEN "Transfer Berhasil!"
               ELSE "Transaksi Berhasil Dicatat!",
               "", "", FormatCurrency(data.nominal))
    ELSE Shown(TransactionFailedHeading, text, result.error, "")

\* _process_transaction from the parser's outcome on
ChatAfterParse(text, res) ==
    IF res.ok THEN ChatAfterLedger(text, res.value, ProcessTransaction(res.value))
    ELSE Shown(ParseFailedHeading, text, res.err, "")

\* the ledger's result, if the parser's outcome reaches the ledger
LedgerAfterParse(res) == IF res.ok THEN ProcessTransaction(res.value) ELSE NoLedger

\* char.isdigit(): the digits, and the superscripts U+00B2, U+00B3 and U+00B9
IsDigitChar(c) == c \in DigitChars \cup {"²", "³", "¹"}

\* transaction_keywords of _is_transaction_like
transaction_keywords ==
    {"beli", "bayar", "makan", "minum", "transport", "gojek", "grab",
     "bensin", "parkir", "tiket", "belanja", "gaji", "uang", "rupiah"}

\* amount_patterns of _is_transaction_like
like_amount_patterns == {"k", "rb", "jt", "ribu", "ratus", "juta"}

\* _is_transaction_like(message)
IsTransactionLike(message_text) ==
    \/ /\ ContainsAny(Lower(message_text), transaction_keywords)
       /\ \E i \in 1..Len(message_text) : IsDigitChar(Char(message_text, i))
    \/ ContainsAny(Lower(message_text), like_amount_patterns)

ProcessingHeading == "Processing..."

\* the heading of _handle_non_transaction_message
NotTransactionHeading == "Pesan tidak dikenali sebagai transaksi"

\* the texts sent to the chat handler (update.message.text)
ChatTexts ==
    {"bakso 15k", "gaji 5jt", "beli laptop 5jt", "beli hp 1jt", "beli hp 1000000.5",
     "transfer bca ke dana 2jt", "transfer bca ke dana 500k", "bakso", "",
     "kopi 1.001rb", "beli hp 4.1jt", " \t", "halo", "beli", "bayar 5", " bakso 15k\n",
     " halo "}

\* message_text of handle_transaction_message, transaction_input of
\* _process_transaction
MessageText == Strip(message.s)

\* handle_transaction_message(update, context) up to the point where it first
\* gives way to the event loop or returns: an empty text is skipped, a text
\* that is no transaction is answered, and _process_transaction shows the
\* processing message before it calls the parser
ChatReceive(text) ==
    /\ handler = "idle"
    /\ message' = Str(text)
    /\ ledger' = NoLedger
    /\ IF Strip(text) = ""
       THEN handler' = "returned" /\ reply' = NoReply
       ELSE IF IsTransactionLike(Strip(text))
       THEN handler' = "processing" /\ reply' = Shown(ProcessingHeading, "", "", "")
       ELSE /\ handler' = "returned"
            /\ reply' = Shown(NotTransactionHeading, Strip(text), "", "")
    /\ UNCHANGED <<pc, user_input, response, outcome, events, observed, concurrent,
                   transaction_parser>>

\* _process_transaction goes on after the processing message: it calls
\* parse_transaction, which runs up to the oracle call
ChatParse ==
    /\ handler = "processing"
    /\ Start(MessageText)
    /\ IF CleanInput(MessageText) = ""
       THEN /\ handler' = "returned"
            /\ reply' = ChatAfterParse(MessageText, Raise(EmptyInputError))
       ELSE handler' = "parsing" /\ reply' = reply
    /\ UNCHANGED <<observed, message, ledger, concurrent>>

\* the oracle answers; the handler runs to its end
ChatOracleReturn(r) ==
    /\ handler = "parsing"
    /\ Finish(r)
    /\ ledger' = LedgerAfterParse(outcome')
    /\ reply' = ChatAfterParse(MessageText, outcome')
    /\ handler' = "returned"
    /\ UNCHANGED <<observed, message, concurrent>>

\* the handler has returned and the parser, if it was called, is ready for
\* the next message
ChatDone ==
    /\ handler = "returned"
    /\ \/ HandOver
       \/ pc = "idle" /\ UNCHANGED <<pc, user_input, response, outcome, events,
                                      transaction_parser>>
    /\ handler' = "idle"
    /\ message' = None
    /\ ledger' = NoLedger
    /\ reply' = NoReply
    /\ UNCHANGED <<observed, concurrent>>

NextChat ==
    \/ \E text \in ChatTexts : ChatReceive(text)
    \/ ChatParse
    \/ \E r \in OracleResponses : ChatOracleReturn(r)
    \/ ChatDone

SpecChat == Init /\ [][NextChat]_vars

\* the texts clean_transaction_input is called on: a body, with or without the
\* command in front and whitespace around
CleanBodies == {"", "bakso 15k", "gaji 5jt ke bank", "/input", "input", "x"}

CleanPrefixes == {"", " ", "/input", "/input ", "  /input  ", "/input\t", "/INPUT "}

CleanSuffixes == {"", " ", "   ", "\t\n", ""}

CleanTexts ==
    {prefix \o body \o suffix :
        prefix \in CleanPrefixes, body \in CleanBodies, suffix \in CleanSuffixes}

\* the amounts format_currency is called on: whole numbers, and numbers with
\* one decimal around 15000
Amounts ==
    {Float(n, 1) : n \in {0, 7, 999, 1000, 15000, 999999, 1500000, 1234567}}
    \cup {Float(n, 10) : n \in 149990..150030}
    \cup {Float(n, 100) : n \in {1500049, 1500050, 1500051, 1500150}}
    \cup {FloatUlp(150005, 10, u) : u \in {-1, 1}}
    \cup {Times(Float(41, 10), 1000000), Times(Float(1001, 1000), 1000)}

\* a caller applies clean_transaction_input to text
CleanCall(text) ==
    /\ pc = "idle"
    /\ message' = Str(text)
    /\ reply' = Shown("clean_transaction_input", CleanTransactionInput(text), "", "")
    /\ UNCHANGED <<pc, user_input, response, outcome, events, observed, ledger, handler,
                   concurrent, transaction_parser>>

\* a caller applies format_currency to amount
FormatCall(amount) ==
    /\ pc = "idle"
    /\ message' = amount
    /\ reply' = Shown("format_currency", "", "", FormatCurrency(amount))
    /\ UNCHANGED <<pc, user_input, response, outcome, events, observed, ledger, handler,
                   concurrent, transaction_parser>>

NextUtils ==
    \/ \E text \in CleanTexts : CleanCall(text)
    \/ \E amount \in Amounts : FormatCall(amount)

SpecUtils == Init /\ [][NextUtils]_vars

(***************************************************************************)
(* Calls of several callers in progress at the same time on the shared     *)
(* transaction_parser. Each call has its own arguments and locals          *)
(* (user_input, cleaned_input, prompt, response, parsed_data, the result)  *)
(* and takes the steps of parse_transaction and _parse_with_ai one at a    *)
(* time, the steps of the other calls coming between any two of them. The  *)
(* instance holds api_key and model; a call reads model when it asks the   *)
(* oracle.                                                                 *)
(***************************************************************************)
ConcurrentInputs == {"bakso 15k", "gaji 5jt ke bank", "kirim bca ke dana 1jt", "isi pulsa", " "}

ConcurrentResponses ==
    {[raises |-> TRUE, text |-> "", doc |-> Garbage],
     Answer(DocMark, Object(BaseExpense)),
     Answer(DocMark, Object(BaseIncome)),
     Answer("^^^json\n@\n^^^", Object(BaseTransfer)),
     Answer("Here is the JSON: @", Object(BaseExpense)),
     Answer(DocMark, Object(Without(BaseExpense, "akun"))),
     Answer(DocMark, Object(With(BaseExpense, "tipe", None))),
     Answer(DocMark, Scalar)}

\* the declared type of parsed_data, in lower case
DeclaredTipe(parsed_data) == Lower(Get(parsed_data.obj, "tipe", Str("")).s)

\* the call goes on at the place pc
Goes(call, place) == [call EXCEPT !.pc = place]

\* the call has taken the steps more and goes on at the place pc
GoesAfter(call, more, place) == [call EXCEPT !.pc = place, !.events = @ \o more]

\* the call ends: res is handed to the caller
Ends(call, more, res) ==
    [call EXCEPT !.pc = "done", !.events = @ \o more, !.outcome = res]

\* the input is cleaned: an empty one fails at once
Cleaned(call) ==
    IF CleanInput(call.user_input) = ""
    THEN Ends(call, <<"raise">>, Raise(EmptyInputError))
    ELSE [call EXCEPT !.pc = "cleaned", !.cleaned_input = CleanInput(call.user_input)]

\* the prompt is made and generate_content is called on the model the
\* instance has
Asked(call, self) ==
    [call EXCEPT !.pc = "oracle", !.prompt = CreateParsingPrompt(call.cleaned_input),
                 !.model = self.model, !.events = <<"oracle">>]

\* generate_content is over: r is what the oracle has for the prompt
OracleAnswered(call, r) ==
    [call EXCEPT !.pc = "answered", !.answer = r,
                 !.response = GenerateContent(call.model, r)]

\* the answer's text is read: the fences are dropped, json.loads is applied
Decoded(call) ==
    IF \/ call.response.raises
       \/ call.response.text = ""
       \/ ~JsonLoads(StripFences(call.response.text), call.response.doc)
    THEN Goes(call, "ai_failed")
    ELSE [call EXCEPT !.pc = "parsed", !.parsed_data = call.response.doc]

\* the cross-check has run the fallback parser
CrossCheckedCall(call, fallback_result) ==
    IF ~fallback_result.ok THEN GoesAfter(call, <<"crosscheck_fallback">>, "ai_failed")
    ELSE IF fallback_result.value.tipe = "transfer"
    THEN [call EXCEPT !.pc = "ai_ok", !.events = @ \o <<"crosscheck_fallback">>,
                      !.result = fallback_result]
    ELSE GoesAfter(call, <<"crosscheck_fallback">>, "checked")

\* parsed_data.get('tipe', '').lower() raises: parsed_data is no object, or
\* its tipe is no str
NoDeclaredTipe(parsed_data) ==
    parsed_data.t # "object" \/ Get(parsed_data.obj, "tipe", Str("")).t # "str"

\* the cross-check is made: the declared type is read only when the input has
\* a keyword
CrossCheckDone(call) ==
    IF ~HasTransferKeywords(call.cleaned_input) THEN Goes(call, "checked")
    ELSE IF NoDeclaredTipe(call.parsed_data) THEN Goes(call, "ai_failed")
    ELSE IF DeclaredTipe(call.parsed_data) # "transfer"
    THEN CrossCheckedCall(call, ParseWithFallback(call.cleaned_input))
    ELSE Goes(call, "checked")

\* the validator has been applied, or a required field was missing
Validation(call, validated_data) ==
    IF validated_data.ok THEN [call EXCEPT !.pc = "ai_ok", !.result = validated_data]
    ELSE Goes(call, "ai_failed")

\* the declared type is read, the required fields are looked for and the
\* validator is applied
FieldsChecked(call) ==
    IF NoDeclaredTipe(call.parsed_data) THEN Goes(call, "ai_failed")
    ELSE Validation(call, CheckFields(call.parsed_data.obj, DeclaredTipe(call.parsed_data)))

\* the except branch: the fallback parser's result, or the terminal error
FellBack(call, fallback_result) ==
    IF fallback_result.ok
    THEN Ends(call, <<"ai_failed", "fallback", "fallback_ok", "return">>, fallback_result)
    ELSE Ends(call, <<"ai_failed", "fallback", "fallback_failed", "raise">>,
              Raise(TerminalError))

\* the steps of the other specifications are not taken
ParserIdle == UNCHANGED <<pc, user_input, response, outcome, events, observed, interface>>

\* caller c calls parse_transaction(text)
ConcurrentCall(c, text) ==
    /\ concurrent[c].pc = "idle"
    /\ concurrent' = [concurrent EXCEPT ![c] = [NoCall EXCEPT !.pc = "called",
                                                              !.user_input = text]]
    /\ UNCHANGED transaction_parser
    /\ ParserIdle

\* the call of caller c cleans its input
ConcurrentClean(c) ==
    /\ concurrent[c].pc = "called"
    /\ concurrent' = [concurrent EXCEPT ![c] = Cleaned(concurrent[c])]
    /\ UNCHANGED transaction_parser
    /\ ParserIdle

\* the call of caller c makes its prompt and asks the oracle
ConcurrentAsk(c) ==
    /\ concurrent[c].pc = "cleaned"
    /\ concurrent' = [concurrent EXCEPT ![c] = Asked(concurrent[c], transaction_parser)]
    /\ UNCHANGED transaction_parser
    /\ ParserIdle

\* the oracle call of caller c is over
ConcurrentOracleReturn(c, r) ==
    /\ concurrent[c].pc = "oracle"
    /\ concurrent' = [concurrent EXCEPT ![c] = OracleAnswered(concurrent[c], r)]
    /\ UNCHANGED transaction_parser
    /\ ParserIdle

\* the call of caller c reads the answer's text
ConcurrentDecode(c) ==
    /\ concurrent[c].pc = "answered"
    /\ concurrent' = [concurrent EXCEPT ![c] = Decoded(concurrent[c])]
    /\ UNCHANGED transaction_parser
    /\ ParserIdle

\* the call of caller c makes the cross-check
ConcurrentCrossCheck(c) ==
    /\ concurrent[c].pc = "parsed"
    /\ concurrent' = [concurrent EXCEPT ![c] = CrossCheckDone(concurrent[c])]
    /\ UNCHANGED transaction_parser
    /\ ParserIdle

\* the call of caller c checks the fields and validates
ConcurrentValidate(c) ==
    /\ concurrent[c].pc = "checked"
    /\ concurrent' = [concurrent EXCEPT ![c] = FieldsChecked(concurrent[c])]
    /\ UNCHANGED transaction_parser
    /\ ParserIdle

\* ConcurrentFallback of a parser that gives up its model once the
\* model-backed parser has failed: the except branch sets self.model to None
ConcurrentFallbackDisabling(c) ==
    /\ concurrent[c].pc = "ai_failed"
    /\ concurrent' =
          [concurrent EXCEPT ![c] =
              FellBack(concurrent[c], ParseWithFallback(concurrent[c].cleaned_input))]
    /\ transaction_parser' = [transaction_parser EXCEPT !.model = NoModel]
    /\ ParserIdle

\* the model-backed parser of caller c has failed: the except branch of
\* parse_transaction, which assigns no attribute of the instance
ConcurrentFallback(c) ==
    /\ concurrent[c].pc = "ai_failed"
    /\ concurrent' =
          [concurrent EXCEPT ![c] =
              FellBack(concurrent[c], ParseWithFallback(concurrent[c].cleaned_input))]
    /\ UNCHANGED transaction_parser
    /\ ParserIdle

\* the model-backed parser of caller c returns its result
ConcurrentReturn(c) ==
    /\ concurrent[c].pc = "ai_ok"
    /\ concurrent' =
          [concurrent EXCEPT ![c] = Ends(concurrent[c], <<"ai_ok", "return">>,
                                         concurrent[c].result)]
    /\ UNCHANGED transaction_parser
    /\ ParserIdle

\* caller c has its outcome
ConcurrentDeliver(c) ==
    /\ concurrent[c].pc = "done"
    /\ concurrent' = [concurrent EXCEPT ![c] = NoCall]
    /\ UNCHANGED transaction_parser
    /\ ParserIdle

NextConcurrent ==
    \/ \E c \in Callers, text \in ConcurrentInputs : ConcurrentCall(c, text)
    \/ \E c \in Callers : ConcurrentClean(c)
    \/ \E c \in Callers : ConcurrentAsk(c)
    \/ \E c \in Callers, r \in ConcurrentResponses : ConcurrentOracleReturn(c, r)
    \/ \E c \in Callers : ConcurrentDecode(c)
    \/ \E c \in Callers : ConcurrentCrossCheck(c)
    \/ \E c \in Callers : ConcurrentValidate(c)
    \/ \E c \in Callers : ConcurrentFallback(c)
    \/ \E c \in Callers : ConcurrentReturn(c)
    \/ \E c \in Callers : ConcurrentDeliver(c)

SpecConcurrent == Init /\ [][NextConcurrent]_vars

(***************************************************************************)
(* Properties                                                              *)
(***************************************************************************)
\* some a comes before the i-th element of seq
HasBefore(seq, a, i) == \E j \in 1..(i - 1) : seq[j] = a

cleaned == CleanInput(user_input)

\* the call has returned a result to its caller
Returned == pc = "done" /\ outcome.ok

\* the call has gone through the oracle's answer
Answered == pc = "done" /\ cleaned # ""

\* the result the caller has came from the orchestrator's fallback attempt
FromFallback == Returned /\ Has(events, "fallback_ok")

\* a required field of the declared type is missing from the oracle's object
MissingField(r) ==
    /\ r.doc.t = "object"
    /\ Get(r.doc.obj, "tipe", Str("")).t = "str"
    /\ \E k \in 1..5 :
          RequiredFields(Lower(Get(r.doc.obj, "tipe", Str("")).s))[k] \notin DOMAIN r.doc.obj

\* C1: for a non-empty cleaned input the oracle is asked first; the
\* orchestrator's fallback attempt comes only after the model-backed parser has
\* failed, and it comes whenever the oracle raised, answered with empty text,
\* with malformed JSON or with an object that lacks a required field and the
\* cross-check did not return first; the terminal error is raised only after
\* both have failed; when the model-backed parser fails and the fallback parser
\* succeeds the caller has the fallback parser's validated result and no error.
C1_AiFirstThenFallback ==
    Answered =>
        LET ai == ParseWithAI(cleaned, response)
            fb == ParseWithFallback(cleaned)
        IN  /\ events[1] = "oracle"
            /\ \A i \in DOMAIN events :
                  events[i] = "fallback" => HasBefore(events, "ai_failed", i) /\ ~ai.res.ok
            /\ \A i \in DOMAIN events :
                  events[i] = "raise" =>
                      /\ HasBefore(events, "ai_failed", i)
                      /\ HasBefore(events, "fallback_failed", i)
                      /\ ~ai.res.ok /\ ~fb.ok
            /\ (\/ response.raises
                \/ response.text = ""
                \/ ~JsonLoads(StripFences(response.text), response.doc)
                \/ (MissingField(response) /\ ai.res.err # ""))
               => Has(events, "fallback")
            /\ (~ai.res.ok /\ fb.ok) => (outcome = fb /\ outcome.ok /\ outcome.err = "")

\* the oracle raised and the fallback parser's result was returned
C1_Witness ==
    /\ Answered /\ response.raises
    /\ events = <<"oracle", "ai_failed", "fallback", "fallback_ok", "return">>
    /\ outcome.ok

\* C2: every result parse_transaction returns has an amount strictly greater
\* than 0.
C2_AmountPositive == Returned => IsPositive(outcome.value.nominal)

\* the number of the first suffixed amount of the text, in the order jt, rb,
\* k, times the multiplier of its suffix
SuffixedAmount(input_lower) ==
    IF ReSearch(input_lower, "jt").found
    THEN Product(DecimalValue(ReSearch(input_lower, "jt").group), 1000000)
    ELSE IF ReSearch(input_lower, "rb").found
    THEN Product(DecimalValue(ReSearch(input_lower, "rb").group), 1000)
    ELSE Product(DecimalValue(ReSearch(input_lower, "k").group), 1000)

HasSuffixedAmount(input_lower) ==
    \E suffix \in {"jt", "rb", "k"} : ReSearch(input_lower, suffix).found

\* C3: the fallback parser's amount is number * 1,000,000 for a text with
\* "<number>jt" and number * 1,000 for a text whose amount is written
\* "<number>rb" or "<number>k", whatever else the text contains.
C3_SuffixMultiplier ==
    (FromFallback /\ HasSuffixedAmount(Lower(cleaned)))
        => outcome.value.nominal = SuffixedAmount(Lower(cleaned))

\* C4: the fallback parser's amount is the number itself when the text has a
\* bare number and no number with a jt, rb or k suffix.
C4_BareNumber ==
    (FromFallback /\ ~HasSuffixedAmount(Lower(cleaned)))
        => outcome.value.nominal = DecimalValue(ReSearch(Lower(cleaned), "").group)

\* the text has one of the cross-check's transfer, withdrawal or top-up triggers
HasTrigger(text) ==
    ContainsAny(Lower(text),
                ai_transfer_keywords \cup ai_withdrawal_keywords \cup topup_keywords)

\* C5 as stated: every result for an input with a transfer-trigger substring
\* is a transfer.
C5_TransferTriggerOriginal ==
    (Returned /\ HasTrigger(cleaned)) => outcome.value.tipe = "transfer"

\* C5, amended: every result for an input with one of the cross-check's
\* trigger substrings and no income keyword is a transfer, whether the oracle
\* declared a transfer, declared an income or expense, or failed.
C5_TransferTrigger ==
    (Returned /\ HasTrigger(cleaned)
              /\ ~ContainsAny(Lower(cleaned), income_keywords))
        => outcome.value.tipe = "transfer"

\* the oracle declared an expense for a text with "ke"; a transfer was returned
C5_Witness ==
    /\ Returned /\ HasTrigger(cleaned)
    /\ ~ContainsAny(Lower(cleaned), income_keywords)
    /\ response.doc = Object(BaseExpense) /\ response.text = DocMark
    /\ Has(events, "crosscheck_fallback")
    /\ outcome.value.tipe = "transfer"

\* C6: "bakso 15k pake cash" gives an expense of 15000 on "cash", category
\* makanan, with a note, when the oracle returns that expense and when the
\* oracle fails.
C6_BaksoScenario ==
    (pc = "done" /\ user_input = "bakso 15k pake cash"
        /\ (response = Answer(DocMark, Object(BaseExpense)) \/ response.raises))
    => /\ outcome.ok
       /\ outcome.value.tipe = "pengeluaran"
       /\ outcome.value.nominal = Float(15000, 1)
       /\ "akun" \in DOMAIN outcome.value /\ outcome.value.akun = "cash"
       /\ outcome.value.kategori = "makanan"
       /\ outcome.value.catatan # ""

Categories == {"makanan", "transportasi", "belanja", "hiburan", "gaji", "lainnya"}

\* C7: the category of every non-transfer result is one of the fixed set.
C7_CategoryInSet ==
    (Returned /\ outcome.value.tipe # "transfer") => outcome.value.kategori \in Categories

NoDigit(text) == \A i \in 1..Len(text) : ~IsDigit(Char(text, i))

\* C8 as stated: an input without a digit ends in the terminal error, whatever
\* the oracle answers.
C8_NoNumberOriginal == (Answered /\ NoDigit(cleaned)) => outcome = Raise(TerminalError)

\* float(nominal) gives a number, and that number is not <= 0: a positive
\* number, an infinity or a NaN
AmountAccepted(data) ==
    /\ "nominal" \in DOMAIN data
    /\ PyFloat(data.nominal).ok
    /\ ~LeqZero(PyFloat(data.nominal).value)

\* the oracle's answer is, the fences dropped, a JSON object with a str tipe,
\* the fields required of that type and an amount the validator accepts
CompleteAnswer(r) ==
    /\ ~r.raises
    /\ StripFences(r.text) = DocMark
    /\ r.doc.t = "object"
    /\ "tipe" \in DOMAIN r.doc.obj /\ r.doc.obj.tipe.t = "str"
    /\ ~MissingField(r)
    /\ AmountAccepted(r.doc.obj)

\* C8, amended: for an input without a digit the fallback parser fails, and
\* parse_transaction returns a result exactly when the oracle answers with a
\* JSON object that has a str tipe, the fields required of that type and an
\* amount float() converts to a number that is not <= 0 (a NaN and an infinity
\* are such numbers), and the cross-check leaves it in place (no transfer,
\* withdrawal or top-up keyword in the text, or a declared transfer); the
\* result is then that object, validated, and the fallback parser is not run.
\* In every other case parse_transaction raises the terminal error.
C8_NoNumber ==
    (Answered /\ NoDigit(cleaned)) =>
        /\ ~ParseWithFallback(cleaned).ok
        /\ IF /\ CompleteAnswer(response)
              /\ \/ ~HasTransferKeywords(cleaned)
                 \/ Lower(response.doc.obj.tipe.s) = "transfer"
           THEN /\ outcome.ok
                /\ outcome = ValidateTransactionData(response.doc.obj)
                /\ events = <<"oracle", "ai_ok", "return">>
           ELSE outcome = Raise(TerminalError)

\* no digit in the text, the oracle's answer is unusable: the terminal error
C8_Witness ==
    /\ Answered /\ NoDigit(cleaned)
    /\ response.doc.t = "object" /\ MissingField(response)
    /\ events = <<"oracle", "ai_failed", "fallback", "fallback_failed", "raise">>
    /\ outcome = Raise(TerminalError)

\* C9: an empty or whitespace-only input fails at once: the oracle is not
\* asked, the fallback parser is not run, no amount is extracted.
C9_EmptyInput ==
    /\ (pc = "done" /\ Strip(user_input) = "") =>
          /\ outcome = Raise(EmptyInputError)
          /\ events = <<"raise">>
          /\ response = NoResponse
    /\ pc = "oracle" => Strip(user_input) # ""

\* a whitespace-only input has failed
C9_Witness ==
    /\ pc = "done" /\ user_input # "" /\ Strip(user_input) = ""
    /\ outcome = Raise(EmptyInputError)

\* C10: with an oracle that answers a prompt the same way each time, a call on
\* a text already parsed hands its caller the outcome the first call on that
\* text did (the same result, or the same failure), whatever calls came
\* between; the attributes of the instance, which a call reads when it asks the
\* oracle, are after every call what they were when it was constructed.
C10_Idempotent ==
    /\ transaction_parser = Constructed
    /\ (pc = "done" /\ user_input \in DOMAIN results) => outcome = results[user_input]

\* a text is parsed again, through the oracle, after a call on another text
C10_Witness ==
    /\ pc = "done" /\ user_input \in DOMAIN results
    /\ calls >= 3
    /\ \E t \in DOMAIN results : t # user_input /\ ~results[t].ok
    /\ Has(events, "ai_ok") /\ outcome.ok
    /\ outcome = results[user_input]

\* the string fields of a result: the accounts and the note
AccountFields(value) ==
    IF value.tipe = "transfer" THEN {"akun_asal", "akun_tujuan"} ELSE {"akun"}

\* the oracle's object has the field k as a str that is blank
BlankField(obj, k) == k \in DOMAIN obj /\ obj[k].t = "str" /\ Strip(obj[k].s) = ""

\* C11: in every result the accounts of its type and the note are present and
\* non-empty after trimming (a regular result has akun, a transfer akun_asal
\* and akun_tujuan); and the validator, given the oracle's object, puts "cash"
\* for an account that is blank or missing and "Transaksi" for a blank or
\* missing note.
C11_NoEmptyField ==
    /\ Returned =>
          /\ \A k \in AccountFields(outcome.value) \cup {"catatan"} :
                k \in DOMAIN outcome.value /\ Strip(outcome.value[k]) # ""
    /\ (pc = "done" /\ response.doc.t = "object") =>
          LET validated == ValidateTransactionData(response.doc.obj)
          IN  validated.ok =>
                /\ \A k \in AccountFields(validated.value) :
                      (k \notin DOMAIN response.doc.obj \/ BlankField(response.doc.obj, k))
                          => validated.value[k] = "cash"
                /\ ("catatan" \notin DOMAIN response.doc.obj
                        \/ BlankField(response.doc.obj, "catatan"))
                      => validated.value.catatan = "Transaksi"

\* the oracle's expense with a blank account was returned with account "cash"
C11_Witness ==
    /\ Returned /\ Has(events, "ai_ok") /\ ~Has(events, "crosscheck_fallback")
    /\ response.doc.t = "object" /\ BlankField(response.doc.obj, "akun")
    /\ outcome.value.tipe = "pengeluaran"
    /\ outcome.value.akun = "cash"

\* the words of the cleaned input, in lower case
input_words == Split(Lower(cleaned))

\* the places (from 1) of the words that are bank names
BankWords == {i \in 1..Len(input_words) : input_words[i] \in word_specific_banks}

\* withdrawal phrasing: a withdrawal keyword and no income keyword
WithdrawalPhrasing ==
    /\ ContainsAny(Lower(cleaned), withdrawal_keywords)
    /\ ~ContainsAny(Lower(cleaned), income_keywords)

\* C12: for a text with withdrawal phrasing the fallback parser returns a
\* transfer to "cash" from the first word that is a bank name, whatever the
\* "dari"/"ke" rules would give.
C12_WithdrawalFirst ==
    (FromFallback /\ WithdrawalPhrasing) =>
        /\ outcome.value.tipe = "transfer"
        /\ outcome.value.akun_tujuan = "cash"

\* the words _detect_account_from_word recognizes as an account other than
\* cash: the bank names and the keywords of account_mapping
RecognizedNonCash(word) ==
    \/ word \in word_specific_banks
    \/ \E k \in 1..Len(account_mapping) :
          /\ account_mapping[k].account # "cash"
          /\ word \in account_mapping[k].keywords

\* the places of the recognized non-cash accounts among the words of the
\* input, the words the top-up scan skips aside
TopupCandidates ==
    {i \in 1..Len(input_words) :
        /\ input_words[i] \notin transfer_skip_words
        /\ RecognizedNonCash(input_words[i])}

\* top-up phrasing, with no withdrawal or income keyword and no "dari"/"ke"
TopupPhrasing ==
    /\ ContainsAny(Lower(cleaned), topup_keywords)
    /\ ~ContainsAny(Lower(cleaned), withdrawal_keywords)
    /\ ~ContainsAny(Lower(cleaned), income_keywords)
    /\ \A i \in 1..Len(input_words) : input_words[i] \notin {"dari", "ke"}

\* C13: for a text with top-up phrasing the fallback parser returns a transfer
\* from cash whose destination is the first recognized non-cash account among
\* the words (skip words aside); a word that is not a recognized account, such
\* as the amount, is never the destination.
C13_TopupDestination ==
    (FromFallback /\ TopupPhrasing) =>
        /\ outcome.value.tipe = "transfer"
        /\ outcome.value.akun_asal = "cash"
        /\ IF TopupCandidates = {}
           THEN outcome.value.akun_tujuan = "cash"
           ELSE outcome.value.akun_tujuan =
                    DetectAccountFromWord(input_words[Least(TopupCandidates)])

\* C14: "gaji bulan ini 5jt ke bank" gives a regular income of 5,000,000 on the
\* account "bank", category gaji, when the oracle returns that income and when
\* the oracle fails and the fallback parser produces the result.
C14_SalaryScenario ==
    (pc = "done" /\ user_input = "gaji bulan ini 5jt ke bank"
        /\ (response = Answer(DocMark, Object(BaseIncome)) \/ response.raises))
    => /\ outcome.ok
       /\ outcome.value.tipe = "pemasukan"
       /\ outcome.value.nominal = Float(5000000, 1)
       /\ "akun" \in DOMAIN outcome.value /\ outcome.value.akun = "bank"
       /\ outcome.value.kategori = "gaji"

C14_Witness ==
    /\ pc = "done" /\ user_input = "gaji bulan ini 5jt ke bank"
    /\ response.raises
    /\ FromFallback
    /\ outcome.value.tipe = "pemasukan"
    /\ outcome.value.akun = "bank"

\* the number of times the oracle has been invoked in the current call
OracleCalls == Cardinality({i \in DOMAIN events : events[i] = "oracle"})

\* C15: in one parse_transaction call the oracle is invoked at most once: not
\* at all for an empty input, exactly once otherwise, and never after the
\* model-backed parser has failed; the fallback attempt is the only recovery.
C15_OracleOnce ==
    /\ OracleCalls <= 1
    /\ pc # "idle" => OracleCalls = (IF cleaned = "" THEN 0 ELSE 1)
    /\ \A i \in DOMAIN events :
          events[i] = "oracle" => ~HasBefore(events, "ai_failed", i)
    /\ (pc = "done" /\ Has(events, "ai_failed")) =>
          \/ Has(events, "fallback_ok") /\ outcome.ok
          \/ Has(events, "fallback_failed") /\ ~outcome.ok

C15_Witness ==
    /\ pc = "done"
    /\ ~response.raises /\ response.doc.t # "object"
    /\ Has(events, "ai_failed")
    /\ FromFallback
    /\ OracleCalls = 1

\* the oracle's object has every required field and an amount that is not
\* positive
NonPositiveAnswer ==
    /\ response.doc.t = "object"
    /\ ~MissingField(response)
    /\ "nominal" \in DOMAIN response.doc.obj
    /\ response.doc.obj["nominal"].t = "num"
    /\ LeqZero(response.doc.obj["nominal"])

\* C16: when the oracle's answer parses into a complete object whose amount is
\* not positive, parse_transaction ends in a failure: no further parsing
\* attempt recovers it and no transaction is returned.
C16_ValidationFailureIsFinal ==
    (pc = "done" /\ ~response.raises /\ response.text = DocMark /\ NonPositiveAnswer) =>
        ~outcome.ok

\* the text has a digit and no digit 0: every number in it is positive
OnlyPositiveNumbers(text) ==
    /\ ~NoDigit(text)
    /\ \A i \in 1..Len(text) : Char(text, i) # "0"

\* the first or the last word of the input is "dari" or "ke"
ConnectorAtEdge ==
    /\ input_words # << >>
    /\ \/ input_words[1] \in {"dari", "ke"}
       \/ input_words[Len(input_words)] \in {"dari", "ke"}

\* C18: for a non-empty text the fallback parser raises only when the amount it
\* extracts is not positive; whenever the extracted amount is positive it
\* returns a validated result, wherever the connectors and keywords stand.
C18_FallbackFailsOnlyWithoutAmount ==
    (pc = "done" /\ Has(events, "fallback")) =>
        /\ Has(events, "fallback_ok") <=> IsPositive(ExtractAmount(Lower(cleaned)))
        /\ OnlyPositiveNumbers(cleaned) => Has(events, "fallback_ok")
        /\ Has(events, "fallback_ok") =>
              /\ outcome.ok
              /\ outcome.value.tipe \in {"pemasukan", "pengeluaran", "transfer"}
              /\ IsPositive(outcome.value.nominal)
        /\ ~Has(events, "fallback_ok") => outcome = Raise(TerminalError)

C18_Witness ==
    /\ pc = "done"
    /\ ConnectorAtEdge
    /\ OnlyPositiveNumbers(cleaned)
    /\ FromFallback
    /\ outcome.value.tipe = "transfer"

\* the ledger has rejected the parsed transaction for insufficient balance
BalanceRejected ==
    /\ pc = "done" /\ outcome.ok
    /\ ledger.called /\ ~ledger.success
    /\ StartsWith(ledger.error, "Saldo tidak cukup")

\* C17: when the ledger rejects a parsed transaction for insufficient balance,
\* the chat handler shows the balance message, not the message of a parse
\* failure and not the generic transaction-failed message.
C17_BalanceMessage ==
    BalanceRejected =>
        /\ reply.kind = BalanceHeading
        /\ reply.kind \notin {ParseFailedHeading, TransactionFailedHeading}

\* C19: clean_transaction_input returns the text without surrounding
\* whitespace and without the "/input" command in front; it returns the empty
\* string for an empty or whitespace-only text and for the command alone, with
\* or without whitespace after it.
C19_CleanTransactionInput ==
    reply.kind = "clean_transaction_input" =>
        /\ Strip(reply.input) = reply.input
        /\ Strip(message.s) \in {"", "/input"} => reply.input = ""
        /\ ~StartsWith(Strip(message.s), "/input") => reply.input = Strip(message.s)

\* n / d rounded to the nearest whole number, a tie going up
RoundHalfUp(n, d) == IF 2 * (n % d) >= d THEN (n \div d) + 1 ELSE n \div d

\* C20: format_currency gives "Rp " and the amount rounded to the nearest
\* whole number with thousands separators, a fraction of exactly one half
\* going up (15000.5 gives "Rp 15,001") and a smaller one down.
C20_FormatCurrency ==
    (reply.kind = "format_currency" /\ message.u = 0 /\ message.n >= 0) =>
        reply.amount = "Rp " \o Grouped(RoundHalfUp(message.n, message.d))

\* parse_transaction(text) as the one call on the instance as constructed,
\* the oracle answering r: what the caller gets, and the steps taken
Alone(text, r) ==
    IF CleanInput(text) = ""
    THEN [res |-> Raise(EmptyInputError), events |-> <<"raise">>]
    ELSE The({[res |-> v.res, events |-> <<"oracle">> \o v.events] :
              v \in {AfterOracle(CleanInput(text), r)}})

\* C21: calls in progress at the same time on the shared parser, their steps
\* interleaved in any order, each end with the outcome, and after the steps,
\* of the same call made alone on its input with the oracle giving the same
\* answer; the attributes of the instance, which the calls read, stay as
\* constructed.
C21_ConcurrentCallsIndependent ==
    /\ transaction_parser = Constructed
    /\ \A c \in Callers :
          concurrent[c].pc = "done" =>
              The({/\ concurrent[c].outcome = v.res
                   /\ concurrent[c].events = v.events :
                   v \in {Alone(concurrent[c].user_input, concurrent[c].answer)}})

\* a call has returned the oracle's object while the call of another caller,
\* on another input, is between two steps of the model-backed parser
C21_Witness ==
    \E c, o \in Callers :
        /\ c # o
        /\ concurrent[c].pc = "done" /\ concurrent[c].outcome.ok
        /\ Has(concurrent[c].events, "ai_ok")
        /\ concurrent[o].pc \in {"parsed", "checked"}
        /\ concurrent[o].user_input # concurrent[c].user_input

\* the number the first pattern that matches, in the order jt, rb, k, bare,
\* captures at its leftmost match
FirstPatternGroup(input_lower) ==
    IF ReSearch(input_lower, "jt").found THEN ReSearch(input_lower, "jt").group
    ELSE IF ReSearch(input_lower, "rb").found THEN ReSearch(input_lower, "rb").group
    ELSE IF ReSearch(input_lower, "k").found THEN ReSearch(input_lower, "k").group
    ELSE ReSearch(input_lower, "").group

\* C22: the fallback parser's amount is made of the number of the first
\* pattern, in the order jt, rb, k, bare number, that matches anywhere in the
\* text, times one multiplier: a suffixed amount wins over a bare number that
\* stands earlier, and no other match adds to it.
C22_FirstPatternWins ==
    FromFallback =>
        \E m \in {1, 1000, 1000000} :
            outcome.value.nominal = Times(DecimalValue(FirstPatternGroup(Lower(cleaned))), m)

C22_Witness ==
    /\ FromFallback
    /\ HasSuffixedAmount(Lower(cleaned))
    /\ ReSearch(Lower(cleaned), "").group # FirstPatternGroup(Lower(cleaned))
    /\ outcome.value.nominal = Times(DecimalValue(FirstPatternGroup(Lower(cleaned))), 1000)

\* the places where a number of the text is followed at once by the suffix
ImmediateAt(s, suffix) ==
    {i \in 1..Len(s) : IsDigit(Char(s, i)) /\ HasAt(s, NumberEnd(s, i) + 1, suffix)}

\* the number taken when a suffix counts only right after the number: the
\* leftmost number of the first of jt, rb, k that follows a number at once,
\* or else the leftmost number of the text
ImmediateGroup(s) ==
    IF ImmediateAt(s, "jt") # {}
    THEN SubSeq(s, Least(ImmediateAt(s, "jt")), NumberEnd(s, Least(ImmediateAt(s, "jt"))))
    ELSE IF ImmediateAt(s, "rb") # {}
    THEN SubSeq(s, Least(ImmediateAt(s, "rb")), NumberEnd(s, Least(ImmediateAt(s, "rb"))))
    ELSE IF ImmediateAt(s, "k") # {}
    THEN SubSeq(s, Least(ImmediateAt(s, "k")), NumberEnd(s, Least(ImmediateAt(s, "k"))))
    ELSE ReSearch(s, "").group

\* C23: a unit suffix counts only when jt, rb or k follows the number at once:
\* a number separated by whitespace from a word beginning with one of these
\* letters is not a suffixed amount and does not pre-empt a later amount.
C23_SuffixImmediatelyFollows ==
    FromFallback =>
        \E m \in {1, 1000, 1000000} :
            outcome.value.nominal = Times(DecimalValue(ImmediateGroup(Lower(cleaned))), m)

\* the oracle's answer is a complete object of a declared type other than
\* transfer that the validator accepts, for an input with a transfer,
\* withdrawal or top-up keyword
CrossCheckFires ==
    /\ pc = "done" /\ cleaned # ""
    /\ ~response.raises /\ response.text = DocMark /\ response.doc.t = "object"
    /\ Get(response.doc.obj, "tipe", Str("")).t = "str"
    /\ Lower(Get(response.doc.obj, "tipe", Str("")).s) # "transfer"
    /\ ~MissingField(response)
    /\ ValidateTransactionData(response.doc.obj).ok
    /\ HasTrigger(cleaned)

\* C24: when the cross-check fires on an oracle answer of a type other than
\* transfer, the fallback parser's result replaces the oracle's only if it is a
\* transfer; otherwise, also when the fallback parser cannot parse the input,
\* the oracle's validated result is returned.
C24_CrossCheckKeepsOracle ==
    CrossCheckFires =>
        outcome = IF ParseWithFallback(cleaned).ok
                        /\ ParseWithFallback(cleaned).value.tipe = "transfer"
                  THEN ParseWithFallback(cleaned)
                  ELSE ValidateTransactionData(response.doc.obj)

\* the word is one the single-word detector recognises as an account: a bank
\* name or a keyword of account_mapping
AccountLike(word) ==
    \/ word \in word_specific_banks
    \/ \E k \in 1..Len(account_mapping) : word \in account_mapping[k].keywords

\* the places (from 1) of the account-like words of the input
AccountLikeWords == {i \in 1..Len(input_words) : AccountLike(input_words[i])}

\* C25: a regular (income or expense) result of the fallback parser, for a
\* text with exactly one account-like word w, carries the account the
\* single-word detector returns for w.
C25_RegularAccountIsWordDetector ==
    (/\ FromFallback
     /\ outcome.value.tipe # "transfer"
     /\ Cardinality(AccountLikeWords) = 1)
        => \A i \in AccountLikeWords :
              outcome.value.akun = DetectAccountFromWord(input_words[i])

\* the input has a "dari" word and a "ke" word, the last "ke" after the last
\* "dari"
DariThenKe ==
    /\ ConnectorIndex(input_words, "dari") # -1
    /\ ConnectorIndex(input_words, "ke") # -1
    /\ ConnectorIndex(input_words, "ke") > ConnectorIndex(input_words, "dari")

\* the account of the word after the connector, "cash" when the connector is
\* the last word
AccountAfter(connector) ==
    IF ConnectorIndex(input_words, connector) + 1 < Len(input_words)
    THEN DetectAccountFromWord(At(input_words, ConnectorIndex(input_words, connector) + 1))
    ELSE "cash"

\* C26: a transfer the fallback parser returns for a text with "dari" and then
\* "ke" has for source the account of the word after "dari" and for
\* destination the account of the word after "ke"; a slot whose word does not
\* exist is "cash".
C26_DariKeSlots ==
    (FromFallback /\ outcome.value.tipe = "transfer" /\ DariThenKe) =>
        /\ outcome.value.akun_asal = AccountAfter("dari")
        /\ outcome.value.akun_tujuan = AccountAfter("ke")

\* the amount of the parsed transaction exceeds the balance of the account it
\* is taken from: an expense, or a transfer
ExceedsBalance ==
    /\ pc = "done" /\ outcome.ok /\ ledger.called
    /\ outcome.value.tipe \in {"pengeluaran", "transfer"}
    /\ Less(AccountBalance, outcome.value.nominal)

\* C27: process_transaction rejects an expense or a transfer whose amount
\* exceeds the balance of the (source) account; the error carries the
\* available balance and the attempted amount, nothing is inserted and no
\* balance is changed.
C27_RejectionLeavesLedger ==
    ExceedsBalance =>
        /\ ~ledger.success
        /\ Contains(ledger.error, "Saldo tersedia: " \o FormatCurrency(AccountBalance))
        /\ Contains(ledger.error, "Dibutuhkan: " \o FormatCurrency(outcome.value.nominal))
        /\ ledger.inserted = 0
        /\ ledger.updates = << >>

C27_Witness ==
    /\ ExceedsBalance
    /\ outcome.value.tipe = "transfer"
    /\ ~ledger.success
    /\ ledger.inserted = 0

\* both the model-backed parser and the fallback parser have failed
BothFailed ==
    /\ pc = "done"
    /\ Has(events, "ai_failed")
    /\ Has(events, "fallback_failed")

\* C28: the error parse_transaction raises when both parsers have failed names
\* the input: its message contains the text that was parsed (the input
\* without the command and the whitespace around it).
C28_TerminalErrorNamesInput ==
    BothFailed => ~outcome.ok /\ Contains(outcome.err, cleaned)

\* the fields of a transfer and of an income or expense
TransferShape == {"tipe", "nominal", "akun_asal", "akun_tujuan", "kategori", "catatan"}

RegularShape == {"tipe", "nominal", "akun", "kategori", "catatan"}

\* C29: every result parse_transaction returns has one of the two shapes: a
\* transfer with source account, destination account, category "transfer" and
\* no "akun"; or an income or expense with "akun" and "kategori" and neither
\* "akun_asal" nor "akun_tujuan". The type is one of the three; a type the
\* oracle declares outside the three comes back as "pengeluaran".
C29_ResultShapes ==
    Returned =>
        /\ outcome.value.tipe \in {"pemasukan", "pengeluaran", "transfer"}
        /\ outcome.value.tipe = "transfer" =>
              /\ DOMAIN outcome.value = TransferShape
              /\ outcome.value.kategori = "transfer"
        /\ outcome.value.tipe # "transfer" =>
              DOMAIN outcome.value = RegularShape
        /\ (/\ Has(events, "ai_ok")
            /\ ~Has(events, "crosscheck_fallback")
            /\ PyStr(Get(response.doc.obj, "tipe", Str("")))
                  \notin {"pemasukan", "pengeluaran", "transfer"}
            /\ Lower(PyStr(Get(response.doc.obj, "tipe", Str(""))))
                  \notin {"pemasukan", "pengeluaran", "transfer"})
           => outcome.value.tipe = "pengeluaran"

\* the oracle declared a type that is none of the three and its object was
\* returned as an expense
UnknownTipeReturned ==
    /\ Returned
    /\ Has(events, "ai_ok")
    /\ Lower(PyStr(Get(response.doc.obj, "tipe", Str(""))))
          \notin {"pemasukan", "pengeluaran", "transfer"}
    /\ outcome.value.tipe = "pengeluaran"
    /\ DOMAIN outcome.value = RegularShape

\* the oracle's transfer carried an "akun" field too and was returned as a
\* transfer
TransferWithAkunReturned ==
    /\ Returned
    /\ Has(events, "ai_ok")
    /\ "akun" \in DOMAIN response.doc.obj
    /\ outcome.value.tipe = "transfer"
    /\ DOMAIN outcome.value = TransferShape

C29_Witness == UnknownTipeReturned \/ TransferWithAkunReturned

\* the prefix of the ValueError the last except of parse_transaction raises
FailedPrefix == "Failed to parse transaction: "

\* C30: every failure of parse_transaction reaches the caller as the
\* ValueError of its last except, the message starting with "Failed to parse
\* transaction:", whatever failed: the empty input, the oracle call, the
\* oracle's text or object, the validation or the fallback parser; the error of
\* the model-backed parser is never what the caller receives.
C30_FailuresAreWrapped ==
    (pc = "done" /\ ~outcome.ok) =>
        /\ StartsWith(outcome.err, FailedPrefix)
        /\ outcome.err \in {EmptyInputError, TerminalError}
        /\ cleaned # "" => outcome.err # ParseWithAI(cleaned, response).res.err

\* the oracle call raised, the fallback parser failed too, and the caller has
\* the wrapped terminal error
C30_Witness ==
    /\ pc = "done"
    /\ response.raises
    /\ Has(events, "fallback_failed")
    /\ ~outcome.ok
    /\ StartsWith(outcome.err, FailedPrefix)
====
